---- MODULE Spec2Model ----
(***************************************************************************)
(* A model of the digits puzzle core: the path and match engine            *)
(* (src/utils/gameLogic.ts) and the constructive board generator           *)
(* (src/utils/boardGenerator.ts).                                          *)
(*                                                                         *)
(* A Board is a sequence of rows, a row a sequence of cells, a cell a      *)
(* record [value, position].  Rows and columns are numbered from 0 as in   *)
(* the source, so the cell at (row, col) is board[row + 1][col + 1].       *)
(* The TypeScript null of Cell.value is the number Null.                   *)
(***************************************************************************)
EXTENDS Integers, Sequences, FiniteSets, TLC

VARIABLES board, phase, req, gen, source, moves, call, hook

vars == <<board, phase, req, gen, source, moves, call, hook>>

(***************************************************************************)
(* Bounds of the model.                                                    *)
(***************************************************************************)
\* generateBoard is called with rows in 1..MaxRows and cols in 1..MaxCols,
\* on boards of at most MaxCells cells
MaxRows == 4
MaxCols == 4
MaxCells == 12
\* and with rows * cols * (number of valid digit pairs) at most MaxPairChoices
MaxPairChoices == 32
\* the arbitrary grids of the engine's specification: up to GridRows x
\* GridCols, of at most GridCells cells
GridRows == 3
GridCols == 3
GridCells == 9

\* the grids addRows is applied to: up to ExtRows x ExtCols, of at most
\* ExtCells cells
ExtRows == 3
ExtCols == 4
ExtCells == 6

\* play on a generated board extends it while the result has at most
\* MaxPlayRows rows and MaxPlayCells cells
MaxPlayRows == 4
MaxPlayCells == 12

\* the passes of the "Place pairs" loop are those of boards of at most
\* MaxGapPairs pairs
MaxGapPairs == 12

\* generateAdjacentPairsBoard is applied to shapes of at most
\* MaxFallbackRows rows, MaxFallbackCols columns and MaxFallbackCells cells
MaxFallbackRows == 4
MaxFallbackCols == 4
MaxFallbackCells == 6

\* its digit sets: one digit, two digits that do not match each other, two
\* that do
FallbackDigitSets == {{5}, {3, 5}, {3, 7}}

\* the useGame hook is modelled on a small board: HookRows, HookCols and
\* HookRowsToAdd stand for INITIAL_ROWS = 10, COLS = 9 and ROWS_TO_ADD = 4,
\* and HookDigits for the digits 1..9 that generateBoard and addRows take
\* when the hook calls them without availableDigits
HookRows == 2
HookCols == 2
HookRowsToAdd == 1
HookDigits == {5}

\* the hook is followed up to stage MaxHookStage, on boards of at most
\* MaxHookRows rows, with at most MaxPruneTimers row-clear timers pending,
\* and until addRowsRemaining is MaxOvershoot below 0
MaxHookStage == 2
MaxHookRows == 3
MaxPruneTimers == 1
MaxOvershoot == 1

\* the boards verifyBoardSolvable is run on: these shapes, filled with one
\* digit or with two digits that do not match, in turn
VerifyShapes == {<<1, 2>>, <<1, 4>>, <<2, 3>>, <<14, 14>>, <<20, 10>>}
VerifyFills == {<<5, 5>>, <<3, 5>>}

\* the grids whose cells are emptied hold these digits
EmptyingDigits == {1, 9}

\* the stages generateBoard is called with: one at or below the preferFar
\* midpoint and one above it
Stages == {1, 6}
\* the availableDigits arguments of generateBoard
DigitSets == {{}, {5}, {3, 5}, {1, 9}}
\* the digits held by the arbitrary grids, and how many of a grid's cells
\* are non-empty
GridDigits == {1, 2, 9}
FilledCounts == 0..3

\* the digits held by the grids addRows is applied to, how many of their
\* cells are non-empty, and the count and availableDigits arguments
ExtDigits == {3, 5}
ExtFilledCounts == 0..4
ExtCountArgs == {1, 2}
ExtDigitSets == {{}, {5}, {3, 5}, {3, 7}}

\* the calls of generateBoard play starts from (rows and cols, stage,
\* availableDigits), and the count arguments of its addRows calls
PlayCalls == {<<<<2, 2>>, 1, {3, 5}>>, <<<<2, 3>>, 1, {5}>>, <<<<4, 3>>, 1, {5}>>}
PlayCountArgs == {1, 2}

(***************************************************************************)
(* Types.                                                                  *)
(***************************************************************************)
Null == 0

ALL_DIGITS == 1..9

Pos(r, c) == [row |-> r, col |-> c]

MkCell(v, r, c) == [value |-> v, position |-> Pos(r, c)]

\* getCell's null: no cell at that position
NoCell == [value |-> Null, position |-> Pos(-1, -1)]

Abs(x) == IF x < 0 THEN -x ELSE x

Min2(a, b) == IF a < b THEN a ELSE b

Max2(a, b) == IF a > b THEN a ELSE b

SetMin(S) == CHOOSE x \in S : \A y \in S : x <= y

SetMax(S) == CHOOSE x \in S : \A y \in S : x >= y

NumRows(b) == Len(b)

\* board[0].length
NumCols(b) == Len(b[1])

(***************************************************************************)
(* gameLogic.ts                                                            *)
(***************************************************************************)
\* canMatchValues with the sum rule forgotten
canMatchValues_SameOnly(a, b) == a = b

canMatchValues(a, b) == a = b \/ a + b = 10

getCell(b, pos) ==
  IF pos.row < 0 \/ pos.row >= NumRows(b) THEN NoCell
  ELSE IF pos.col < 0 \/ pos.col >= NumCols(b) THEN NoCell
  ELSE b[pos.row + 1][pos.col + 1]

\* cell && cell.value !== null
Occupied(cell) == cell # NoCell /\ cell.value # Null

isHorizontalPathClear(b, from, to) ==
  /\ from.row = to.row
  /\ \A col \in (Min2(from.col, to.col) + 1)..(Max2(from.col, to.col) - 1) :
       ~Occupied(getCell(b, Pos(from.row, col)))

isVerticalPathClear(b, from, to) ==
  /\ from.col = to.col
  /\ \A row \in (Min2(from.row, to.row) + 1)..(Max2(from.row, to.row) - 1) :
       ~Occupied(getCell(b, Pos(row, from.col)))

\* a diagonal check that ignores maxDistance
isDiagonalPathClear_Unbounded(b, from, to, maxDistance) ==
  LET rowDiff == to.row - from.row
      colDiff == to.col - from.col
      rowStep == IF rowDiff > 0 THEN 1 ELSE -1
      colStep == IF colDiff > 0 THEN 1 ELSE -1
  IN /\ Abs(rowDiff) = Abs(colDiff)
     /\ rowDiff # 0
     /\ \A i \in 1..(Abs(rowDiff) - 1) :
          ~Occupied(getCell(b, Pos(from.row + i * rowStep, from.col + i * colStep)))

\* maxDistance = 0 stands for an undefined maxDistance
isDiagonalPathClear(b, from, to, maxDistance) ==
  LET rowDiff == to.row - from.row
      colDiff == to.col - from.col
      rowStep == IF rowDiff > 0 THEN 1 ELSE -1
      colStep == IF colDiff > 0 THEN 1 ELSE -1
      steps == Abs(rowDiff)
  IN /\ Abs(rowDiff) = Abs(colDiff)
     /\ rowDiff # 0
     /\ ~(maxDistance # 0 /\ Abs(rowDiff) > maxDistance)
     /\ \A i \in 1..(steps - 1) :
          ~Occupied(getCell(b, Pos(from.row + i * rowStep, from.col + i * colStep)))

posToIndex(pos, cols) == pos.row * cols + pos.col

indexToPos(index, cols) == Pos(index \div cols, index % cols)

isHorizontalWrapPathClear(b, from, to) ==
  LET cols == NumCols(b)
      fromIdx == posToIndex(from, cols)
      toIdx == posToIndex(to, cols)
  IN \A idx \in (Min2(fromIdx, toIdx) + 1)..(Max2(fromIdx, toIdx) - 1) :
       ~Occupied(getCell(b, indexToPos(idx, cols)))

\* hasValidPath with the wrap-around check forgotten
hasValidPath_NoWrap(b, from, to, maxDiag) ==
  IF from.row = to.row /\ from.col = to.col THEN FALSE
  ELSE IF from.row = to.row /\ isHorizontalPathClear(b, from, to) THEN TRUE
  ELSE IF from.col = to.col /\ isVerticalPathClear(b, from, to) THEN TRUE
  ELSE IF isDiagonalPathClear(b, from, to, maxDiag) THEN TRUE
  ELSE FALSE

\* a path check that also wants a value at both ends
hasValidPath_FilledEnds(b, from, to, maxDiag) ==
  /\ Occupied(getCell(b, from))
  /\ Occupied(getCell(b, to))
  /\ hasValidPath_NoWrap(b, from, to, maxDiag) \/ isHorizontalWrapPathClear(b, from, to)
  /\ ~(from.row = to.row /\ from.col = to.col)

\* options.maxDiagonalDistance is maxDiag; 0 when no options are given
hasValidPath(b, from, to, maxDiag) ==
  IF from.row = to.row /\ from.col = to.col THEN FALSE
  ELSE IF from.row = to.row /\ isHorizontalPathClear(b, from, to) THEN TRUE
  ELSE IF from.col = to.col /\ isVerticalPathClear(b, from, to) THEN TRUE
  ELSE IF isDiagonalPathClear(b, from, to, maxDiag) THEN TRUE
  ELSE IF isHorizontalWrapPathClear(b, from, to) THEN TRUE
  ELSE FALSE

NoOptions == 0

\* canMatch with the path check forgotten
canMatch_NoPath(b, pos1, pos2) ==
  LET cell1 == getCell(b, pos1)
      cell2 == getCell(b, pos2)
  IN IF cell1 = NoCell \/ cell2 = NoCell THEN FALSE
     ELSE IF cell1.value = Null \/ cell2.value = Null THEN FALSE
     ELSE canMatchValues(cell1.value, cell2.value)

canMatch(b, pos1, pos2) ==
  LET cell1 == getCell(b, pos1)
      cell2 == getCell(b, pos2)
  IN IF cell1 = NoCell \/ cell2 = NoCell THEN FALSE
     ELSE IF cell1.value = Null \/ cell2.value = Null THEN FALSE
     ELSE IF ~canMatchValues(cell1.value, cell2.value) THEN FALSE
     ELSE hasValidPath(b, pos1, pos2, NoOptions)

\* removeMatch emptying pos1 only
removeMatch_FirstOnly(b, pos1, pos2) ==
  [rowIdx \in 1..Len(b) |->
    [colIdx \in 1..Len(b[rowIdx]) |->
      IF rowIdx - 1 = pos1.row /\ colIdx - 1 = pos1.col
      THEN [b[rowIdx][colIdx] EXCEPT !.value = Null]
      ELSE b[rowIdx][colIdx]]]

\* removeMatch with the column test of pos1 left out
removeMatch_WholeRow(b, pos1, pos2) ==
  [rowIdx \in 1..Len(b) |->
    [colIdx \in 1..Len(b[rowIdx]) |->
      IF \/ rowIdx - 1 = pos1.row
         \/ (rowIdx - 1 = pos2.row /\ colIdx - 1 = pos2.col)
      THEN [b[rowIdx][colIdx] EXCEPT !.value = Null]
      ELSE b[rowIdx][colIdx]]]

\* removeMatch returning { value: null } without the cell's other fields
removeMatch_DropPosition(b, pos1, pos2) ==
  [rowIdx \in 1..Len(b) |->
    [colIdx \in 1..Len(b[rowIdx]) |->
      IF \/ (rowIdx - 1 = pos1.row /\ colIdx - 1 = pos1.col)
         \/ (rowIdx - 1 = pos2.row /\ colIdx - 1 = pos2.col)
      THEN MkCell(Null, 0, 0)
      ELSE b[rowIdx][colIdx]]]

removeMatch(b, pos1, pos2) ==
  [rowIdx \in 1..Len(b) |->
    [colIdx \in 1..Len(b[rowIdx]) |->
      IF \/ (rowIdx - 1 = pos1.row /\ colIdx - 1 = pos1.col)
         \/ (rowIdx - 1 = pos2.row /\ colIdx - 1 = pos2.col)
      THEN [b[rowIdx][colIdx] EXCEPT !.value = Null]
      ELSE b[rowIdx][colIdx]]]

\* getMatchDistance counting one endpoint
getMatchDistance_Inclusive(b, pos1, pos2) ==
  Abs(posToIndex(pos1, NumCols(b)) - posToIndex(pos2, NumCols(b)))

getMatchDistance(b, pos1, pos2) ==
  Abs(posToIndex(pos1, NumCols(b)) - posToIndex(pos2, NumCols(b))) - 1

calculateScore(b, pos1, pos2) ==
  LET cell1 == getCell(b, pos1)
      cell2 == getCell(b, pos2)
  IN IF ~Occupied(cell1) \/ ~Occupied(cell2) THEN 0
     ELSE cell1.value + cell2.value + getMatchDistance(b, pos1, pos2) * 2

isBoardCleared(b) ==
  \A r \in 1..Len(b) : \A c \in 1..Len(b[r]) : b[r][c].value = Null

\* the matches the nested scan of hasAnyValidMatch tests, as linear indexes
ScanHit(b, i, j) ==
  LET cols == NumCols(b)
      p == indexToPos(i, cols)
      q == indexToPos(j, cols)
  IN /\ b[p.row + 1][p.col + 1].value # Null
     /\ i # j
     /\ b[q.row + 1][q.col + 1].value # Null
     /\ \/ b[p.row + 1][p.col + 1].value = b[q.row + 1][q.col + 1].value
        \/ b[p.row + 1][p.col + 1].value + b[q.row + 1][q.col + 1].value = 10
     /\ hasValidPath(b, p, q, NoOptions)

\* hasAnyValidMatch testing equal values only
hasAnyValidMatch_SameOnly(b) ==
  IF NumRows(b) = 0 THEN FALSE
  ELSE LET n == NumRows(b) * NumCols(b)
           valueAt(i) == b[(i \div NumCols(b)) + 1][(i % NumCols(b)) + 1].value
       IN \E i \in 0..(n - 1) : \E j \in 0..(n - 1) :
            ScanHit(b, i, j) /\ valueAt(i) = valueAt(j)

hasAnyValidMatch(b) ==
  IF NumRows(b) = 0 THEN FALSE
  ELSE LET n == NumRows(b) * NumCols(b)
       IN \E i \in 0..(n - 1) : \E j \in 0..(n - 1) : ScanHit(b, i, j)

NoPair == <<>>

\* the same scan as hasAnyValidMatch, returning the first pair it meets
findValidPair(b) ==
  IF NumRows(b) = 0 THEN NoPair
  ELSE LET n == NumRows(b) * NumCols(b)
           firsts == {i \in 0..(n - 1) : \E j \in 0..(n - 1) : ScanHit(b, i, j)}
       IN IF firsts = {} THEN NoPair
          ELSE LET i0 == SetMin(firsts)
                   j0 == SetMin({j \in 0..(n - 1) : ScanHit(b, i0, j)})
               IN <<indexToPos(i0, NumCols(b)), indexToPos(j0, NumCols(b))>>

\* isRowCleared with some in place of every
isRowCleared_Some(row) == \E c \in 1..Len(row) : row[c].value = Null

isRowCleared(row) == \A c \in 1..Len(row) : row[c].value = Null

getClearedRowIndices(b) == {r \in 0..(Len(b) - 1) : isRowCleared(b[r + 1])}

\* board.filter((row) => !isRowCleared(row))
RECURSIVE FilterRows(_)
FilterRows(rows) ==
  IF rows = <<>> THEN <<>>
  ELSE IF isRowCleared(Head(rows)) THEN FilterRows(Tail(rows))
  ELSE <<Head(rows)>> \o FilterRows(Tail(rows))

\* the rows kept with the positions they had
Renumber_Keep(rows) == rows

Renumber(rows) ==
  [newRowIndex \in 1..Len(rows) |->
    [colIndex \in 1..Len(rows[newRowIndex]) |->
      [rows[newRowIndex][colIndex] EXCEPT !.position = Pos(newRowIndex - 1, colIndex - 1)]]]

removeClearedRows(b) ==
  LET remainingRows == FilterRows(b)
  IN IF Len(remainingRows) = Len(b) THEN b
     ELSE Renumber(remainingRows)

(***************************************************************************)
(* boardGenerator.ts                                                       *)
(***************************************************************************)
\* stage / 10 > 0.5, the preferFar flag of getDifficultyConfig
preferFar(stage) == stage > 5

\* the neighbours countAdjacentMatches looks at, in its order: the eight
\* surrounding positions, then the wrap-around predecessor and successor
Neighbors(b, pos) ==
  LET cols == NumCols(b)
      linearIdx == pos.row * cols + pos.col
  IN <<Pos(pos.row - 1, pos.col - 1), Pos(pos.row - 1, pos.col),
       Pos(pos.row - 1, pos.col + 1), Pos(pos.row, pos.col - 1),
       Pos(pos.row, pos.col + 1), Pos(pos.row + 1, pos.col - 1),
       Pos(pos.row + 1, pos.col), Pos(pos.row + 1, pos.col + 1)>>
     \o (IF linearIdx > 0 THEN <<indexToPos(linearIdx - 1, cols)>> ELSE <<>>)
     \o (IF linearIdx < NumRows(b) * cols - 1
         THEN <<indexToPos(linearIdx + 1, cols)>> ELSE <<>>)

countAdjacentMatches(b, pos, value) ==
  LET neighbors == Neighbors(b, pos)
  IN Cardinality({k \in 1..Len(neighbors) :
       /\ neighbors[k].row >= 0 /\ neighbors[k].row < NumRows(b)
       /\ neighbors[k].col >= 0 /\ neighbors[k].col < NumCols(b)
       /\ b[neighbors[k].row + 1][neighbors[k].col + 1].value # Null
       /\ LET neighborValue == b[neighbors[k].row + 1][neighbors[k].col + 1].value
          IN neighborValue = value \/ neighborValue + value = 10})

\* getValidPairs without the digitSet.has(complement) test
getValidPairs_AnyComplement(availableDigits) ==
  {<<d1, d1>> : d1 \in availableDigits}
  \cup {<<d1, 10 - d1>> : d1 \in {d \in availableDigits :
          10 - d # d /\ 10 - d >= 1 /\ 10 - d <= 9}}

\* the pairs of the list getValidPairs builds (it holds no pair twice)
getValidPairs(availableDigits) ==
  {<<d1, d1>> : d1 \in availableDigits}
  \cup {<<d1, 10 - d1>> : d1 \in {d \in availableDigits :
          10 - d # d /\ 10 - d >= 1 /\ 10 - d <= 9 /\ (10 - d) \in availableDigits}}

\* score of the candidate that puts pair[1] at pos1 and pair[2] at pos2
CandidateScore(b, pos1, pos2, pair) ==
  countAdjacentMatches(b, pos1, pair[1]) + countAdjacentMatches(b, pos2, pair[2])

\* The pairs generateBestPair can return.  Every valid pair is pushed as a
\* candidate, and once more swapped when its values differ; the candidates
\* are sorted by score after a shuffle, so candidates[0] is any candidate of
\* the least score and candidates[0..4] any candidate with at most four
\* candidates of a strictly lower score.
generateBestPair(b, pos1, pos2, availableDigits) ==
  LET allPairs == getValidPairs(availableDigits)
      unequal == {q \in allPairs : q[1] # q[2]}
      swapped == {<<q[2], q[1]>> : q \in unequal}
      numCandidates == Cardinality(allPairs) + Cardinality(unequal)
      score == [p \in allPairs \cup swapped |-> CandidateScore(b, pos1, pos2, p)]
      lower(p) == Cardinality({q \in allPairs : score[q] < score[p]})
                  + Cardinality({q \in unequal : score[<<q[2], q[1]>>] < score[p]})
      best == {p \in allPairs \cup swapped : lower(p) = 0}
      topFive == {p \in allPairs \cup swapped : lower(p) <= 4}
  IN IF numCandidates < 5 THEN best ELSE best \cup topFive

createEmptyBoard(rows, cols) ==
  [row \in 1..rows |-> [col \in 1..cols |-> MkCell(Null, row - 1, col - 1)]]

\* snakePositions[i]: row 0 left to right, row 1 right to left, ...
snakePositions(i, cols) ==
  LET row == i \div cols
  IN IF row % 2 = 0 THEN Pos(row, i % cols) ELSE Pos(row, cols - 1 - (i % cols))

\* maxGap of pair pairIdx.  progress < 0.5 is 2 * pairIdx < totalPairs; past
\* it Math.floor((1 - shrink) * 5) is 10 * (totalPairs - pairIdx) div
\* totalPairs, except at progress 0.8, where the double arithmetic gives
\* 1.9999999999999996 and so 1
maxGapOf(pairIdx, totalPairs, remainingLength, stage) ==
  IF 2 * pairIdx < totalPairs
  THEN IF preferFar(stage) THEN Min2(remainingLength - 1, 15)
       ELSE Min2(remainingLength - 1, 8)
  ELSE IF 5 * pairIdx = 4 * totalPairs THEN 1
  ELSE Max2(1, (10 * (totalPairs - pairIdx)) \div totalPairs)

\* a choice of pos2 that never looks at the path: the farthest index in the
\* target range
bestIdx2Of_NoPath(b, remaining, idx1InRemaining, maxGap) ==
  LET length == Len(remaining)
      targetGap == Min2(maxGap, length - 1)
      gaps == {tryGap \in 1..targetGap : idx1InRemaining + tryGap < length}
  IN IF gaps # {} THEN idx1InRemaining + SetMax(gaps) ELSE -1

\* bestIdx2 for the pos1 at remaining[idx1InRemaining], -1 when there is none
bestIdx2Of(b, remaining, idx1InRemaining, maxGap) ==
  LET cols == NumCols(b)
      length == Len(remaining)
      pos1 == snakePositions(remaining[idx1InRemaining + 1], cols)
      posAt(idx2) == snakePositions(remaining[idx2 + 1], cols)
      targetGap == Min2(maxGap, length - 1)
      gaps == {tryGap \in 1..targetGap :
                 /\ idx1InRemaining + tryGap < length
                 /\ hasValidPath(b, pos1, posAt(idx1InRemaining + tryGap), NoOptions)}
      anyIdx == {idx2 \in 0..(length - 1) :
                 idx2 # idx1InRemaining /\ hasValidPath(b, pos1, posAt(idx2), NoOptions)}
  IN IF gaps # {} THEN idx1InRemaining + SetMax(gaps)
     ELSE IF anyIdx # {} THEN SetMin(anyIdx)
     ELSE -1

NoPlacement == <<>>

\* the <<idx1InRemaining, bestIdx2>> the pos1Try loop settles on
RECURSIVE pos1Loop(_, _, _, _, _)
pos1Loop(b, remaining, maxGap, maxPos1Tries, pos1Try) ==
  IF ~(pos1Try < maxPos1Tries) THEN NoPlacement
  ELSE LET bestIdx2 == bestIdx2Of(b, remaining, pos1Try, maxGap)
       IN IF bestIdx2 >= 0 THEN <<pos1Try, bestIdx2>>
          ELSE pos1Loop(b, remaining, maxGap, maxPos1Tries, pos1Try + 1)

findPlacement(b, remaining, pairIdx, totalPairs, stage) ==
  pos1Loop(b, remaining, maxGapOf(pairIdx, totalPairs, Len(remaining), stage),
           Min2(5, Len(remaining)), 0)

\* remaining.splice of both indexes (remaining holds no index twice)
spliceBoth(remaining, idx1, idx2) ==
  LET v1 == remaining[idx1 + 1]
      v2 == remaining[idx2 + 1]
  IN SelectSeq(remaining, LAMBDA x : x # v1 /\ x # v2)

setValue(b, pos, v) == [b EXCEPT ![pos.row + 1][pos.col + 1].value = v]

maxMoves == 100

RECURSIVE verifyLoop(_, _)
verifyLoop(currentBoard, n) ==
  IF ~(n < maxMoves) THEN FALSE
  ELSE IF isBoardCleared(currentBoard) THEN TRUE
  ELSE LET pair == findValidPair(currentBoard)
       IN IF pair = NoPair THEN FALSE
          ELSE verifyLoop(removeMatch(currentBoard, pair[1], pair[2]), n + 1)

\* a construction that returns its board unverified
verifyBoardSolvable_Skip(b) == TRUE

verifyBoardSolvable(b) == verifyLoop(b, 0)

\* The boards generateAdjacentPairsBoard can return: the cells at linear
\* indexes i, i + 1 (i even) get any one of the valid pairs.
RECURSIVE adjacentPairsFrom(_, _, _, _)
adjacentPairsFrom(b, i, totalCells, validPairs) ==
  IF ~(i < totalCells) THEN {b}
  ELSE LET cols == NumCols(b)
           pos1 == Pos(i \div cols, i % cols)
           pos2 == Pos((i + 1) \div cols, (i + 1) % cols)
       IN UNION {adjacentPairsFrom(setValue(setValue(b, pos1, pair[1]), pos2, pair[2]),
                                   i + 2, totalCells, validPairs) : pair \in validPairs}

\* a layout that gives the two cells of a pair any two available digits
generateAdjacentPairsBoard_AnyDigits(rows, cols, availableDigits) ==
  adjacentPairsFrom(createEmptyBoard(rows, cols), 0, rows * cols,
                    availableDigits \X availableDigits)

generateAdjacentPairsBoard(rows, cols, availableDigits) ==
  adjacentPairsFrom(createEmptyBoard(rows, cols), 0, rows * cols,
                    getValidPairs(availableDigits))

(***************************************************************************)
(* addRows.  Its random choices (the shuffles, the rescue digit, the       *)
(* barrier pairs, the swaps) make it a set of runs; a run records the      *)
(* locals the code computes on the way to the board it returns.            *)
(***************************************************************************)
\* { maxDiagonalDistance: 1 }
ADDROWS_PATH_OPTIONS == 1

\* hasValidMatch looking at the values only
hasValidMatch_NoPath(b, pos) ==
  LET cell == b[pos.row + 1][pos.col + 1]
  IN IF cell.value = Null THEN FALSE
     ELSE \E row \in 0..(Len(b) - 1) : \E col \in 0..(Len(b[1]) - 1) :
            /\ ~(row = pos.row /\ col = pos.col)
            /\ b[row + 1][col + 1].value # Null
            /\ \/ cell.value = b[row + 1][col + 1].value
               \/ cell.value + b[row + 1][col + 1].value = 10

hasValidMatch(b, pos) ==
  LET cell == b[pos.row + 1][pos.col + 1]
  IN IF cell.value = Null THEN FALSE
     ELSE \E row \in 0..(Len(b) - 1) : \E col \in 0..(Len(b[1]) - 1) :
            /\ ~(row = pos.row /\ col = pos.col)
            /\ b[row + 1][col + 1].value # Null
            /\ \/ cell.value = b[row + 1][col + 1].value
               \/ cell.value + b[row + 1][col + 1].value = 10
            /\ hasValidPath(b, pos, Pos(row, col), ADDROWS_PATH_OPTIONS)

\* the count without the filter
remainingCellsOf_All(b) ==
  Cardinality(UNION {{<<r, c>> : c \in 1..Len(b[r])} : r \in 1..Len(b)})

\* board.flat().filter(cell => cell.value !== null).length
remainingCellsOf(b) ==
  Cardinality({rc \in UNION {{<<r, c>> : c \in 1..Len(b[r])} : r \in 1..Len(b)} :
                 b[rc[1]][rc[2]].value # Null})

\* board[0]?.length || cols
boardColsOf(b, cols) == IF Len(b) > 0 /\ Len(b[1]) # 0 THEN Len(b[1]) ELSE cols

\* the positions whose values the scan pushes to stuckValues
stuckPositions(b, boardCols) ==
  {pos \in {Pos(row, col) : row \in 0..(Len(b) - 1), col \in 0..(boardCols - 1)} :
     /\ b[pos.row + 1][pos.col + 1].value # Null
     /\ ~hasValidMatch(b, pos)}

\* the orders a shuffle can leave a list in: the lists of the same length
\* that hold every value as often as seq does
shuffle(seq) ==
  IF seq = <<>> THEN {<<>>}
  ELSE LET values == {seq[i] : i \in 1..Len(seq)}
           times(list, v) == Cardinality({i \in 1..Len(seq) : list[i] = v})
       IN {list \in [1..Len(seq) -> values] : \A v \in values : times(list, v) = times(seq, v)}

\* stuckValues in the order of the scan
RECURSIVE stuckValuesFrom(_, _, _)
stuckValuesFrom(b, boardCols, idx) ==
  IF ~(idx < Len(b) * boardCols) THEN <<>>
  ELSE LET pos == Pos(idx \div boardCols, idx % boardCols)
       IN (IF pos \in stuckPositions(b, boardCols)
           THEN <<b[pos.row + 1][pos.col + 1].value>> ELSE <<>>)
          \o stuckValuesFrom(b, boardCols, idx + 1)

\* the digits the code may take to go with value: value itself, its
\* complement, either when both are available, none when neither is
matchingDigits(value, availableSet) ==
  LET complement == 10 - value
      canUseSame == value \in availableSet
      canUseComplement == complement >= 1 /\ complement <= 9 /\ complement \in availableSet
  IN IF canUseSame /\ canUseComplement THEN {value, complement}
     ELSE IF canUseSame THEN {value}
     ELSE IF canUseComplement THEN {complement}
     ELSE {}

\* the valuesToPlace the loop over shuffledStuck can build from its k-th
\* element on
RECURSIVE rescueLoop(_, _, _, _, _)
rescueLoop(shuffledStuck, k, valuesToPlace, totalNewCells, availableSet) ==
  IF k > Len(shuffledStuck) THEN {valuesToPlace}
  ELSE IF Len(valuesToPlace) >= totalNewCells THEN {valuesToPlace}
  ELSE LET rescues == matchingDigits(shuffledStuck[k], availableSet)
       IN IF rescues = {}
          THEN rescueLoop(shuffledStuck, k + 1, valuesToPlace, totalNewCells, availableSet)
          ELSE UNION {
            LET pushed == Append(valuesToPlace, rescueValue)
                pairs == matchingDigits(rescueValue, availableSet)
            IN IF Len(pushed) >= totalNewCells THEN {pushed}
               ELSE IF pairs = {}
               THEN rescueLoop(shuffledStuck, k + 1, pushed, totalNewCells, availableSet)
               ELSE UNION {rescueLoop(shuffledStuck, k + 1, Append(pushed, pairValue),
                                      totalNewCells, availableSet) : pairValue \in pairs}
            : rescueValue \in rescues}

\* a while loop that pushes any two digits of the valid pairs
RECURSIVE barrierLoop_AnyDigits(_, _, _, _)
barrierLoop_AnyDigits(placed, barrierValues, totalNewCells, validPairs) ==
  IF placed + Len(barrierValues) < totalNewCells - 1 /\ validPairs # {}
  THEN UNION {barrierLoop_AnyDigits(placed, barrierValues \o <<d1, d2>>,
                                    totalNewCells, validPairs) :
                d1 \in {pair[1] : pair \in validPairs},
                d2 \in {pair[2] : pair \in validPairs}}
  ELSE {barrierValues}

\* the barrierValues the while loop can build
RECURSIVE barrierLoop(_, _, _, _)
barrierLoop(placed, barrierValues, totalNewCells, validPairs) ==
  IF placed + Len(barrierValues) < totalNewCells - 1 /\ validPairs # {}
  THEN UNION {barrierLoop(placed, barrierValues \o <<pair[1], pair[2]>>,
                          totalNewCells, validPairs) : pair \in validPairs}
  ELSE {barrierValues}

\* the odd cell count edge case left out
oddBarrier_None(placed, barrierValues, totalNewCells, availableDigits) ==
  {barrierValues}

\* the extra digit pushed whether or not a cell is left to fill
oddBarrier_Always(placed, barrierValues, totalNewCells, availableDigits) ==
  IF availableDigits # {}
  THEN {Append(barrierValues, d) : d \in availableDigits}
  ELSE {barrierValues}

\* the odd cell count edge case
oddBarrier(placed, barrierValues, totalNewCells, availableDigits) ==
  IF placed + Len(barrierValues) < totalNewCells /\ availableDigits # {}
  THEN {Append(barrierValues, d) : d \in availableDigits}
  ELSE {barrierValues}

\* [...shuffledBarriers, ...shuffledRescue].slice(0, totalNewCells), after
\* which the swaps of the loop can leave the list in any order; when the
\* slice cuts nothing these are the orders of all the values together
orderedValuesOf(barrierValues, valuesToPlace, totalNewCells) ==
  IF Len(barrierValues) + Len(valuesToPlace) <= totalNewCells
  THEN shuffle(barrierValues \o valuesToPlace)
  ELSE UNION {UNION {
           LET joined == shuffledBarriers \o shuffledRescue
           IN shuffle(SubSeq(joined, 1, totalNewCells))
           : shuffledRescue \in shuffle(valuesToPlace)}
         : shuffledBarriers \in shuffle(barrierValues)}

\* the column before the first empty cell in place of the last non-empty one
lastNonNullColOf_FirstGap(lastRow, boardCols) ==
  LET empty == {col \in 0..(boardCols - 1) : lastRow[col + 1].value = Null}
  IN IF empty = {} THEN boardCols - 1 ELSE SetMin(empty) - 1

\* lastNonNullCol of the last row, -1 when the row has no value
lastNonNullColOf(lastRow, boardCols) ==
  LET occupied == {col \in 0..(boardCols - 1) : lastRow[col + 1].value # Null}
  IN IF occupied = {} THEN -1 ELSE SetMax(occupied)

\* startRow, the length of the board before any row is pushed, as the index
\* of every new row
newRowIndex_StartRow(startRows, i) == startRows

\* rowIndex = newBoard.length when the i-th new row is built
newRowIndex(startRows, i) == startRows + i - 1

\* the board after the values are written: the trailing cells of the last
\* row, then full rows, then one partial row
placeValues(newBoard, orderedValues, boardCols) ==
  LET startRows == Len(newBoard)
      lastNonNullCol == IF startRows > 0
                        THEN lastNonNullColOf(newBoard[startRows], boardCols) ELSE -1
      backfill == IF startRows > 0 /\ lastNonNullCol >= 0 /\ lastNonNullCol < boardCols - 1
                  THEN Min2(boardCols - 1 - lastNonNullCol, Len(orderedValues)) ELSE 0
      filled == [r \in 1..startRows |->
                  IF r = startRows
                  THEN [c \in 1..Len(newBoard[r]) |->
                          IF c - 1 > lastNonNullCol /\ c - 1 - lastNonNullCol <= backfill
                          THEN MkCell(orderedValues[c - 1 - lastNonNullCol], startRows - 1, c - 1)
                          ELSE newBoard[r][c]]
                  ELSE newBoard[r]]
      remainingToAdd == Len(orderedValues) - backfill
      newFullRows == remainingToAdd \div boardCols
      newPartialCells == remainingToAdd % boardCols
      fullRows == [i \in 1..newFullRows |->
                    [c \in 1..boardCols |->
                       MkCell(orderedValues[backfill + (i - 1) * boardCols + c],
                              newRowIndex(startRows, i), c - 1)]]
      partialRow == [c \in 1..boardCols |->
                       IF c - 1 < newPartialCells
                       THEN MkCell(orderedValues[backfill + newFullRows * boardCols + c],
                                   newRowIndex(startRows, newFullRows + 1), c - 1)
                       ELSE MkCell(Null, newRowIndex(startRows, newFullRows + 1), c - 1)]
  IN IF remainingToAdd > 0
     THEN filled \o fullRows \o (IF newPartialCells > 0 THEN <<partialRow>> ELSE <<>>)
     ELSE filled

\* the runs of addRows(board, count, cols, _stage, availableDigits)
addRowsRuns(b, count, cols, availableDigits) ==
  LET boardCols == boardColsOf(b, cols)
      remainingCells == remainingCellsOf(b)
      unchanged == {[totalNewCells |-> 0, valuesToPlace |-> <<>>, barrierValues |-> <<>>,
                     orderedValues |-> <<>>, result |-> b]}
  IN IF remainingCells = 0 THEN unchanged
     ELSE IF availableDigits = {} THEN unchanged
     ELSE LET maxCells == count * boardCols
              totalNewCells == Min2(remainingCells, maxCells)
              stuckValues == stuckValuesFrom(b, boardCols, 0)
              rescued == UNION {rescueLoop(shuffledStuck, 1, <<>>, totalNewCells,
                                           availableDigits)
                                : shuffledStuck \in shuffle(stuckValues)}
              validPairs == getValidPairs(availableDigits)
          IN UNION {UNION {UNION {
               {[totalNewCells |-> totalNewCells, valuesToPlace |-> valuesToPlace,
                 barrierValues |-> barrierValues, orderedValues |-> orderedValues,
                 result |-> placeValues(b, orderedValues, boardCols)]
                : orderedValues \in orderedValuesOf(barrierValues, valuesToPlace,
                                                    totalNewCells)}
               : barrierValues \in oddBarrier(Len(valuesToPlace), evenBarrier,
                                              totalNewCells, availableDigits)}
               : evenBarrier \in barrierLoop(Len(valuesToPlace), <<>>, totalNewCells,
                                             validPairs)}
               : valuesToPlace \in rescued}

addRows(b, count, cols, availableDigits) ==
  {run.result : run \in addRowsRuns(b, count, cols, availableDigits)}

\* attempts of the requested stage, and of each preceding stage
MainAttempts == 50
FallbackAttempts == 10

(***************************************************************************)
(* generateBoard as a process.  req holds the arguments of the call, gen   *)
(* the locals of generateBoard and of the running tryGenerateSolvableBoard *)
(* (the stage being tried, the attempt, pairIdx, remaining); gen.placed    *)
(* lists the pairs of positions the running attempt has filled, in the     *)
(* order it filled them; board is the board under construction and then    *)
(* the board returned.                                                     *)
(***************************************************************************)
NoReq == [rows |-> 0, cols |-> 0, stage |-> 0, availableDigits |-> {}]

NoGen == [stage |-> 0, attempt |-> 0, pairIdx |-> 0, remaining |-> <<>>,
          placed |-> <<>>]

NoCall == [op |-> "none"]

\* the state of the useGame hook when no hook is mounted
NoHook == [mounted |-> FALSE]

freshAttempt(rows, cols, stage, attempt) ==
  [stage |-> stage, attempt |-> attempt, pairIdx |-> 0,
   remaining |-> [i \in 1..(rows * cols) |-> i - 1], placed |-> <<>>]

Init ==
  /\ board = <<>>
  /\ phase = "idle"
  /\ req = NoReq
  /\ gen = NoGen
  /\ source = "none"
  /\ moves = 0
  /\ call = NoCall
  /\ hook = NoHook

\* the parity test on the rows alone
hasOddCells_Rows(rows, cols) == rows % 2 # 0

\* totalCells % 2 !== 0
hasOddCells(rows, cols) == (rows * cols) % 2 # 0

\* generateBoard up to the first call of tryGenerateSolvableBoard
GenerateBoard(rows, cols, stage, availableDigits) ==
  /\ phase = "idle"
  /\ req' = [rows |-> rows, cols |-> cols, stage |-> stage,
             availableDigits |-> availableDigits]
  /\ IF hasOddCells(rows, cols)
     THEN /\ phase' = "error: Board must have even number of cells"
          /\ UNCHANGED <<board, gen>>
     ELSE IF getValidPairs(availableDigits) = {}
     THEN /\ phase' = "error: No valid digit pairs available"
          /\ UNCHANGED <<board, gen>>
     ELSE /\ phase' = "placing"
          /\ board' = createEmptyBoard(rows, cols)
          /\ gen' = freshAttempt(rows, cols, stage, 0)
  /\ UNCHANGED <<source, moves, call, hook>>

\* attempt loops that give up on the lower stages: after the attempts of
\* the requested stage comes the last resort
attemptFailed_NoLowerStages ==
  IF gen.attempt + 1 < MainAttempts
  THEN /\ gen' = freshAttempt(req.rows, req.cols, gen.stage, gen.attempt + 1)
       /\ board' = createEmptyBoard(req.rows, req.cols)
       /\ phase' = "placing"
  ELSE /\ gen' = NoGen
       /\ board' = <<>>
       /\ phase' = "lastResort"

\* tryGenerateSolvableBoard returned null: the next attempt of the loop
\* that is running, the first attempt of the next lower stage, or the last
\* resort
attemptFailed ==
  LET limit == IF gen.stage = req.stage THEN MainAttempts ELSE FallbackAttempts
  IN IF gen.attempt + 1 < limit
     THEN /\ gen' = freshAttempt(req.rows, req.cols, gen.stage, gen.attempt + 1)
          /\ board' = createEmptyBoard(req.rows, req.cols)
          /\ phase' = "placing"
     ELSE IF gen.stage - 1 >= 1
     THEN /\ gen' = freshAttempt(req.rows, req.cols, gen.stage - 1, 0)
          /\ board' = createEmptyBoard(req.rows, req.cols)
          /\ phase' = "placing"
     ELSE /\ gen' = NoGen
          /\ board' = <<>>
          /\ phase' = "lastResort"

\* one pass of the "Place pairs" loop of tryGenerateSolvableBoard
PlacePair ==
  /\ phase = "placing"
  /\ gen.pairIdx < (req.rows * req.cols) \div 2
  /\ LET totalPairs == (req.rows * req.cols) \div 2
         placement == IF Len(gen.remaining) < 2 THEN NoPlacement
                      ELSE findPlacement(board, gen.remaining, gen.pairIdx,
                                         totalPairs, gen.stage)
     IN IF placement = NoPlacement THEN attemptFailed
        ELSE IF getValidPairs(req.availableDigits) = {}
        THEN /\ phase' = "error: No available digit pairs"
             /\ UNCHANGED <<board, gen>>
        ELSE LET pos1 == snakePositions(gen.remaining[placement[1] + 1], req.cols)
                 pos2 == snakePositions(gen.remaining[placement[2] + 1], req.cols)
             IN \E pair \in generateBestPair(board, pos1, pos2, req.availableDigits) :
                  /\ board' = setValue(setValue(board, pos1, pair[1]), pos2, pair[2])
                  /\ gen' = [gen EXCEPT !.pairIdx = gen.pairIdx + 1,
                                        !.remaining = spliceBoth(gen.remaining,
                                                         placement[1], placement[2]),
                                        !.placed = Append(gen.placed, <<pos1, pos2>>)]
                  /\ phase' = "placing"
  /\ UNCHANGED <<req, source, moves, call, hook>>

\* the end of tryGenerateSolvableBoard: the board is returned if it verifies
VerifyBoard ==
  /\ phase = "placing"
  /\ gen.pairIdx = (req.rows * req.cols) \div 2
  /\ IF verifyBoardSolvable(board)
     THEN /\ phase' = "ready"
          /\ source' = "constructive"
          /\ gen' = NoGen
          /\ UNCHANGED board
     ELSE attemptFailed /\ UNCHANGED source
  /\ UNCHANGED <<req, moves, call, hook>>

\* the last line of generateBoard
LastResort ==
  /\ phase = "lastResort"
  /\ board' \in generateAdjacentPairsBoard(req.rows, req.cols, req.availableDigits)
  /\ phase' = "ready"
  /\ source' = "fallback"
  /\ UNCHANGED <<req, gen, moves, call, hook>>

\* one move of simulated play on the generated board: the pair findValidPair
\* returns is removed
SolveStep ==
  /\ phase = "ready"
  /\ LET pair == findValidPair(board)
     IN /\ pair # NoPair
        /\ board' = removeMatch(board, pair[1], pair[2])
  /\ moves' = moves + 1
  /\ UNCHANGED <<phase, req, gen, source, call, hook>>

Shapes == {s \in (1..MaxRows) \X (1..MaxCols) : s[1] * s[2] <= MaxCells}

\* the calls of generateBoard the model makes
Calls ==
  {c \in Shapes \X Stages \X DigitSets :
     c[1][1] * c[1][2] * Cardinality(getValidPairs(c[3])) <= MaxPairChoices}

Next ==
  \/ \E c \in Calls : GenerateBoard(c[1][1], c[1][2], c[2], c[3])
  \/ PlacePair
  \/ VerifyBoard
  \/ LastResort
  \/ SolveStep

Spec == Init /\ [][Next]_vars

(***************************************************************************)
(* The engine's functions applied to arbitrary grids.  InitLogic draws a   *)
(* grid; each action applies one function of gameLogic.ts to it, for every *)
(* choice of its position arguments, and records what it returned.         *)
(***************************************************************************)
\* the grids of rows x cols cells whose non-empty cells are those at the
\* linear indexes of filled, holding the digits of values
gridOf(rows, cols, filled, values) ==
  [r \in 1..rows |-> [c \in 1..cols |->
     LET idx == (r - 1) * cols + (c - 1)
     IN MkCell(IF idx \in filled THEN values[idx] ELSE Null, r - 1, c - 1)]]

ArbGrids ==
  UNION {UNION {{gridOf(shape[1], shape[2], filled, values) :
                   values \in [filled -> GridDigits]} :
                filled \in {f \in SUBSET (0..(shape[1] * shape[2] - 1)) :
                              Cardinality(f) \in FilledCounts}} :
         shape \in {sh \in (1..GridRows) \X (1..GridCols) : sh[1] * sh[2] <= GridCells}}

PosSet(b) == {Pos(r, c) : r \in 0..(NumRows(b) - 1), c \in 0..(NumCols(b) - 1)}

InitLogic ==
  /\ board \in ArbGrids
  /\ phase = "logic"
  /\ req = NoReq
  /\ gen = NoGen
  /\ source = "none"
  /\ moves = 0
  /\ call = NoCall
  /\ hook = NoHook

Apply(op, result) ==
  /\ phase = "logic"
  /\ call = NoCall
  /\ call' = [op |-> op, result |-> result]
  /\ UNCHANGED <<board, phase, req, gen, source, moves, hook>>

ApplyCanMatchValues ==
  Apply("canMatchValues", [ab \in ALL_DIGITS \X ALL_DIGITS |-> canMatchValues(ab[1], ab[2])])

ApplyHasValidPath ==
  Apply("hasValidPath",
        [pq \in PosSet(board) \X PosSet(board) |-> hasValidPath(board, pq[1], pq[2], NoOptions)])

ApplyCanMatch ==
  Apply("canMatch", [pq \in PosSet(board) \X PosSet(board) |-> canMatch(board, pq[1], pq[2])])

ApplyCalculateScore ==
  Apply("calculateScore",
        [pq \in PosSet(board) \X PosSet(board) |-> calculateScore(board, pq[1], pq[2])])

ApplyHasAnyValidMatch == Apply("hasAnyValidMatch", hasAnyValidMatch(board))

ApplyFindValidPair == Apply("findValidPair", findValidPair(board))

ApplyGetClearedRowIndices == Apply("getClearedRowIndices", getClearedRowIndices(board))

ApplyRemoveClearedRows == Apply("removeClearedRows", removeClearedRows(board))

\* removeMatch of two cells with a valid path between them, and the values
\* of the two cells written back
removeAndReinsert(b, from, to) ==
  LET removed == removeMatch(b, from, to)
      first == setValue(removed, from, b[from.row + 1][from.col + 1].value)
  IN setValue(first, to, b[to.row + 1][to.col + 1].value)

ApplyRemoveAndReinsert ==
  Apply("removeAndReinsert",
        [pq \in {ab \in PosSet(board) \X PosSet(board) :
                   hasValidPath(board, ab[1], ab[2], NoOptions)} |->
           removeAndReinsert(board, pq[1], pq[2])])

\* where removeClearedRows puts the cell at pos, which lies in a row that is
\* kept: its row index is the number of kept rows above it
renumberedPosition(b, pos) ==
  Pos(Cardinality({r \in 0..(pos.row - 1) : ~isRowCleared(b[r + 1])}), pos.col)

\* for two positions in kept rows that hasValidPath joins under the options
\* of addRows: the verdicts of hasValidPath on removeClearedRows(board), at
\* the renumbered positions, under the same options and without options
ApplyPathAfterRemoveClearedRows ==
  Apply("pathAfterRemoveClearedRows",
        [pq \in {ab \in PosSet(board) \X PosSet(board) :
                   /\ ~isRowCleared(board[ab[1].row + 1])
                   /\ ~isRowCleared(board[ab[2].row + 1])
                   /\ hasValidPath(board, ab[1], ab[2], ADDROWS_PATH_OPTIONS)} |->
           LET pruned == removeClearedRows(board)
               a == renumberedPosition(board, pq[1])
               b == renumberedPosition(board, pq[2])
           IN [bounded |-> hasValidPath(pruned, a, b, ADDROWS_PATH_OPTIONS),
               unbounded |-> hasValidPath(pruned, a, b, NoOptions)]])

NextLogic ==
  \/ ApplyPathAfterRemoveClearedRows
  \/ ApplyCanMatchValues
  \/ ApplyHasValidPath
  \/ ApplyCanMatch
  \/ ApplyCalculateScore
  \/ ApplyHasAnyValidMatch
  \/ ApplyFindValidPair
  \/ ApplyGetClearedRowIndices
  \/ ApplyRemoveAndReinsert
  \/ ApplyRemoveClearedRows

SpecLogic == InitLogic /\ [][NextLogic]_vars

(***************************************************************************)
(* Play on a generated board: generateBoard, then match removals, row      *)
(* prunings and extensions in any order.  call notes whether some addRows  *)
(* call so far had an odd count * cols.                                    *)
(***************************************************************************)
OddBudgetCall == [op |-> "addRows", oddBudget |-> TRUE]

\* removeMatch of any two cells that canMatch accepts
RemoveMatch ==
  /\ phase = "ready"
  /\ Len(board) > 0
  /\ \E pos1 \in PosSet(board) : \E pos2 \in PosSet(board) :
       /\ canMatch(board, pos1, pos2)
       /\ board' = removeMatch(board, pos1, pos2)
  /\ UNCHANGED <<phase, req, gen, source, moves, call, hook>>

\* removeClearedRows when some row is cleared
PruneRows ==
  /\ phase = "ready"
  /\ getClearedRowIndices(board) # {}
  /\ board' = removeClearedRows(board)
  /\ UNCHANGED <<phase, req, gen, source, moves, call, hook>>

\* addRows(board, count, cols, stage, availableDigits) with the columns and
\* digits the board was generated with
ExtendBoard(count) ==
  /\ phase = "ready"
  /\ \E result \in addRows(board, count, req.cols, req.availableDigits) :
       /\ Len(result) <= MaxPlayRows
       /\ Len(result) * boardColsOf(board, req.cols) <= MaxPlayCells
       /\ board' = result
  /\ call' = IF (count * boardColsOf(board, req.cols)) % 2 = 1 THEN OddBudgetCall ELSE call
  /\ UNCHANGED <<phase, req, gen, source, moves, hook>>

NextPlay ==
  \/ \E c \in PlayCalls : GenerateBoard(c[1][1], c[1][2], c[2], c[3])
  \/ PlacePair
  \/ VerifyBoard
  \/ LastResort
  \/ RemoveMatch
  \/ PruneRows
  \/ \E count \in PlayCountArgs : ExtendBoard(count)

SpecPlay == Init /\ [][NextPlay]_vars

(***************************************************************************)
(* addRows and removeMatch applied to arbitrary grids.  InitExtend draws   *)
(* the grid; ApplyAddRows records one run of addRows on it, and            *)
(* ApplyRemoveMatch what removeMatch returns for every two positions.      *)
(***************************************************************************)
ExtGrids ==
  UNION {UNION {{gridOf(shape[1], shape[2], filled, values) :
                   values \in [filled -> ExtDigits]} :
                filled \in {f \in SUBSET (0..(shape[1] * shape[2] - 1)) :
                              Cardinality(f) \in ExtFilledCounts}} :
         shape \in {sh \in (1..ExtRows) \X (1..ExtCols) : sh[1] * sh[2] <= ExtCells}}

InitExtend ==
  /\ board \in ExtGrids
  /\ phase = "extend"
  /\ req = NoReq
  /\ gen = NoGen
  /\ source = "none"
  /\ moves = 0
  /\ call = NoCall
  /\ hook = NoHook

ApplyAddRows(count, availableDigits) ==
  /\ phase = "extend"
  /\ call = NoCall
  /\ \E run \in addRowsRuns(board, count, NumCols(board), availableDigits) :
       call' = [op |-> "addRows", count |-> count,
                availableDigits |-> availableDigits, run |-> run]
  /\ UNCHANGED <<board, phase, req, gen, source, moves, hook>>

ApplyRemoveMatch ==
  /\ phase = "extend"
  /\ call = NoCall
  /\ call' = [op |-> "removeMatch",
              result |-> [pq \in PosSet(board) \X PosSet(board) |->
                            removeMatch(board, pq[1], pq[2])]]
  /\ UNCHANGED <<board, phase, req, gen, source, moves, hook>>

NextExtend ==
  \/ \E count \in ExtCountArgs : \E availableDigits \in ExtDigitSets :
       ApplyAddRows(count, availableDigits)
  \/ ApplyRemoveMatch

SpecExtend == InitExtend /\ [][NextExtend]_vars

(***************************************************************************)
(* The claims about the engine, checked under SpecLogic.                   *)
(***************************************************************************)
Called(op) == phase = "logic" /\ call.op = op

ValueAt(b, p) == b[p.row + 1][p.col + 1].value

Linear(b, p) == p.row * NumCols(b) + p.col

StrictlyBetween(x, a, c) == (a < x /\ x < c) \/ (c < x /\ x < a)

\* the four path rules, stated over the cells of the grid
RowRule(b, p, q) ==
  /\ p.row = q.row
  /\ \A x \in PosSet(b) :
       x.row = p.row /\ StrictlyBetween(x.col, p.col, q.col) => ValueAt(b, x) = Null

ColumnRule(b, p, q) ==
  /\ p.col = q.col
  /\ \A x \in PosSet(b) :
       x.col = p.col /\ StrictlyBetween(x.row, p.row, q.row) => ValueAt(b, x) = Null

OnDiagonal(p, q) == Abs(p.row - q.row) = Abs(p.col - q.col) /\ p.row # q.row

DiagonalRule(b, p, q) ==
  /\ OnDiagonal(p, q)
  /\ \A x \in PosSet(b) :
       /\ StrictlyBetween(x.row, p.row, q.row)
       /\ (x.row - p.row) * (q.col - p.col) = (x.col - p.col) * (q.row - p.row)
       => ValueAt(b, x) = Null

WrapRule(b, p, q) ==
  \A x \in PosSet(b) :
    StrictlyBetween(Linear(b, x), Linear(b, p), Linear(b, q)) => ValueAt(b, x) = Null

Unaligned(p, q) == p.row # q.row /\ p.col # q.col /\ ~OnDiagonal(p, q)

\* C2: hasValidPath without options is true iff from # to and the row, the
\* column, the diagonal or the wrap rule holds; so between two cells that
\* share no row, column or diagonal, a non-empty cell at a linear index
\* strictly between theirs makes it false.
C2_PathIffSomeRule ==
  Called("hasValidPath") =>
    \A p \in PosSet(board) : \A q \in PosSet(board) :
      /\ call.result[<<p, q>>] =
           (p # q /\ (\/ RowRule(board, p, q) \/ ColumnRule(board, p, q)
                      \/ DiagonalRule(board, p, q) \/ WrapRule(board, p, q)))
      /\ (/\ Unaligned(p, q)
          /\ \E x \in PosSet(board) :
               /\ StrictlyBetween(Linear(board, x), Linear(board, p), Linear(board, q))
               /\ ValueAt(board, x) # Null)
         => call.result[<<p, q>>] = FALSE

\* a pair joined by the wrap rule alone, and an unaligned pair that a cell
\* between them blocks
C2_Witness ==
  /\ Called("hasValidPath")
  /\ \E p \in PosSet(board) : \E q \in PosSet(board) :
       /\ Unaligned(p, q) /\ call.result[<<p, q>>] = TRUE
       /\ Abs(Linear(board, p) - Linear(board, q)) > 1
  /\ \E p \in PosSet(board) : \E q \in PosSet(board) :
       Unaligned(p, q) /\ call.result[<<p, q>>] = FALSE

\* C3: canMatch is true iff both cells are non-empty, their values are equal
\* or sum to 10, and hasValidPath holds between them.
C3_CanMatchIff ==
  Called("canMatch") =>
    \A p \in PosSet(board) : \A q \in PosSet(board) :
      call.result[<<p, q>>] =
        (/\ ValueAt(board, p) # Null
         /\ ValueAt(board, q) # Null
         /\ (ValueAt(board, p) = ValueAt(board, q) \/ ValueAt(board, p) + ValueAt(board, q) = 10)
         /\ hasValidPath(board, p, q, NoOptions))

\* two non-empty cells with values summing to 10 that a third cell blocks,
\* on a grid where another pair matches
C3_Witness ==
  /\ Called("canMatch")
  /\ \E p \in PosSet(board) : \E q \in PosSet(board) :
       /\ ValueAt(board, p) # Null /\ ValueAt(board, p) + ValueAt(board, q) = 10
       /\ ~hasValidPath(board, p, q, NoOptions) /\ p # q
       /\ call.result[<<p, q>>] = FALSE
  /\ \E p \in PosSet(board) : \E q \in PosSet(board) : call.result[<<p, q>>] = TRUE

\* C4: for all digits a, b in 1..9, canMatchValues(a, b) is true iff b is a
\* or 10 - a, and it agrees with canMatchValues(b, a).
C4_ValuesRule ==
  Called("canMatchValues") =>
    \A a \in 1..9 : \A b \in 1..9 :
      /\ call.result[<<a, b>>] = (b \in {a, 10 - a})
      /\ call.result[<<a, b>>] = call.result[<<b, a>>]

C4_Witness ==
  /\ Called("canMatchValues")
  /\ call.result[<<3, 7>>] /\ call.result[<<7, 3>>] /\ call.result[<<4, 4>>]
  /\ ~call.result[<<3, 8>>]

\* C7: for two non-empty cells calculateScore is the sum of the two values
\* plus twice the number of cells strictly between them in linear order,
\* the same in both argument orders; it is 0 when either cell is empty.
C7_ScoreLaw ==
  Called("calculateScore") =>
    \A p \in PosSet(board) : \A q \in PosSet(board) :
      /\ (ValueAt(board, p) # Null /\ ValueAt(board, q) # Null) =>
           call.result[<<p, q>>] =
             ValueAt(board, p) + ValueAt(board, q)
             + 2 * (Abs(Linear(board, p) - Linear(board, q)) - 1)
      /\ (ValueAt(board, p) = Null \/ ValueAt(board, q) = Null) => call.result[<<p, q>>] = 0
      /\ call.result[<<p, q>>] = call.result[<<q, p>>]

\* values 1 and 9 with two empty cells between them score 14, and two
\* linearly adjacent cells in different rows score the sum of their values
C7_Witness ==
  /\ Called("calculateScore")
  /\ \E p \in PosSet(board) : \E q \in PosSet(board) :
       /\ ValueAt(board, p) = 1 /\ ValueAt(board, q) = 9
       /\ Linear(board, q) = Linear(board, p) + 3
       /\ WrapRule(board, p, q)
       /\ call.result[<<p, q>>] = 14
  /\ \E p \in PosSet(board) : \E q \in PosSet(board) :
       /\ p.row # q.row /\ Linear(board, q) = Linear(board, p) + 1
       /\ ValueAt(board, p) # Null /\ ValueAt(board, q) # Null
       /\ call.result[<<p, q>>] = ValueAt(board, p) + ValueAt(board, q)

\* the rows (numbered from 1) that hold a non-empty cell, and the n-th of them
KeptRows(b) == {r \in 1..Len(b) : \E c \in 1..Len(b[r]) : b[r][c].value # Null}

KeptRow(b, n) == CHOOSE r \in KeptRows(b) : Cardinality({j \in KeptRows(b) : j < r}) = n - 1

\* C8: getClearedRowIndices lists the rows without a non-empty cell, and
\* removeClearedRows returns the other rows, in their order, with their cell
\* values, every cell's position being its new row index and its column.
C8_PruneKeepsAndRenumbers ==
  /\ Called("getClearedRowIndices") =>
       call.result = {r - 1 : r \in (1..Len(board)) \ KeptRows(board)}
  /\ Called("removeClearedRows") =>
       /\ Len(call.result) = Cardinality(KeptRows(board))
       /\ \A n \in 1..Len(call.result) :
            /\ Len(call.result[n]) = Len(board[KeptRow(board, n)])
            /\ \A c \in 1..Len(call.result[n]) :
                 /\ call.result[n][c].value = board[KeptRow(board, n)][c].value
                 /\ call.result[n][c].position = Pos(n - 1, c - 1)

\* a cleared row between two rows that are kept: the lower one moves up
C8_Witness ==
  /\ Called("removeClearedRows")
  /\ KeptRows(board) = {1, 3}
  /\ Len(call.result) = 2
  /\ \E c \in 1..Len(board[3]) :
       /\ board[3][c].value # Null
       /\ call.result[2][c].value = board[3][c].value
       /\ call.result[2][c].position.row = 1

\* C9: removeClearedRows returns its input when no row is fully empty, also
\* when rows are partly empty, and removing the cleared rows of its result
\* changes nothing.
C9_PruneIdentityIdempotent ==
  Called("removeClearedRows") =>
    /\ KeptRows(board) = 1..Len(board) => call.result = board
    /\ removeClearedRows(call.result) = call.result

\* a grid with a partly empty row and no cleared row
C9_Witness ==
  /\ Called("removeClearedRows")
  /\ KeptRows(board) = 1..Len(board)
  /\ \E r \in 1..Len(board) : \E c \in 1..Len(board[r]) : board[r][c].value = Null
  /\ Len(board) > 1
  /\ call.result = board

\* C10: hasAnyValidMatch is true iff two distinct positions can be matched;
\* findValidPair returns a pair that can be matched exactly when
\* hasAnyValidMatch is true, and no pair otherwise.
C10_AnyMatchAndFindPair ==
  /\ Called("hasAnyValidMatch") =>
       call.result = (\E p \in PosSet(board) : \E q \in PosSet(board) :
                        p # q /\ canMatch(board, p, q))
  /\ Called("findValidPair") =>
       /\ (call.result # NoPair) = hasAnyValidMatch(board)
       /\ call.result # NoPair =>
            /\ call.result[1] \in PosSet(board) /\ call.result[2] \in PosSet(board)
            /\ canMatch(board, call.result[1], call.result[2])

\* a grid whose only match joins 1 and 9 in different rows
C10_Witness ==
  /\ Called("hasAnyValidMatch")
  /\ call.result = TRUE
  /\ \A p \in PosSet(board) : \A q \in PosSet(board) :
       canMatch(board, p, q) => ValueAt(board, p) # ValueAt(board, q) /\ p.row # q.row

(***************************************************************************)
(* The claims about generateBoard, checked under Spec.                     *)
(***************************************************************************)
NonEmptyCount(b) ==
  Cardinality({p \in PosSet(b) : ValueAt(b, p) # Null})

Returned == phase = "ready"

\* C1: on a board generateBoard returned, play that keeps removing the pair
\* findValidPair returns is never stuck with non-empty cells left (no pair
\* only on a cleared board), every removal takes two cells away, and so the
\* board is cleared after at most rows * cols / 2 removals.
C1_GreedyPlayClears ==
  Returned =>
    /\ (findValidPair(board) = NoPair => isBoardCleared(board))
    /\ 2 * moves + NonEmptyCount(board) = req.rows * req.cols
    /\ 2 * moves <= req.rows * req.cols

\* a constructive 3 x 4 board of the digits 3 and 5, which do not match each
\* other, cleared by its sixth removal
C1_Witness ==
  /\ Returned
  /\ source = "constructive"
  /\ req.availableDigits = {3, 5}
  /\ req.rows * req.cols = 12
  /\ moves = 6
  /\ isBoardCleared(board)

\* tryGenerateSolvableBoard is in its loop or at its end, and where the loop
\* found two positions generateBestPair has a pair to return
PlacingCanStep ==
  LET totalPairs == (req.rows * req.cols) \div 2
  IN /\ gen.pairIdx <= totalPairs
     /\ (gen.pairIdx < totalPairs /\ Len(gen.remaining) >= 2) =>
          LET placement == findPlacement(board, gen.remaining, gen.pairIdx,
                                         totalPairs, gen.stage)
          IN placement # NoPlacement =>
               generateBestPair(board,
                                snakePositions(gen.remaining[placement[1] + 1], req.cols),
                                snakePositions(gen.remaining[placement[2] + 1], req.cols),
                                req.availableDigits) # {}

\* C5: generateBoard throws iff rows * cols is odd or availableDigits is
\* empty; on every other input no step of it throws and every step has a
\* successor, the last resort included, until a board is returned.
C5_ErrorsIffOddOrNoDigits ==
  phase # "idle" =>
    /\ (phase = "error: Board must have even number of cells")
         <=> ((req.rows * req.cols) % 2 = 1)
    /\ (phase = "error: No valid digit pairs available")
         <=> ((req.rows * req.cols) % 2 = 0 /\ req.availableDigits = {})
    /\ phase \in {"error: Board must have even number of cells",
                  "error: No valid digit pairs available",
                  "placing", "lastResort", "ready"}
    /\ (phase = "placing" => PlacingCanStep)
    /\ (phase = "lastResort" =>
          generateAdjacentPairsBoard(req.rows, req.cols, req.availableDigits) # {})

\* a call at stage 6 whose attempts all failed, at stage 6 and at the five
\* stages below it, and that returned the board of the last resort
C5_Witness ==
  /\ Returned
  /\ source = "fallback"
  /\ req.stage = 6
  /\ moves = 0
  /\ ~isBoardCleared(board)

\* C6: the board generateBoard returns has rows rows of cols cells, every
\* cell holds a digit of availableDigits, and every cell's position is its
\* row and column index, on the constructive path and on the last resort.
C6_ReturnedBoardWellFormed ==
  (Returned /\ moves = 0) =>
    /\ Len(board) = req.rows
    /\ \A r \in 1..Len(board) :
         /\ Len(board[r]) = req.cols
         /\ \A c \in 1..Len(board[r]) :
              /\ board[r][c].value # Null
              /\ board[r][c].value \in req.availableDigits
              /\ board[r][c].position = Pos(r - 1, c - 1)

\* a returned board of more than one row that holds both digits of {1, 9}
C6_Witness ==
  /\ Returned
  /\ moves = 0
  /\ req.availableDigits = {1, 9}
  /\ req.rows > 1 /\ req.cols > 1
  /\ \E p \in PosSet(board) : ValueAt(board, p) = 1
  /\ \E p \in PosSet(board) : ValueAt(board, p) = 9

(***************************************************************************)
(* The claims about addRows and removeMatch, under SpecExtend.             *)
(***************************************************************************)
Extended == phase = "extend" /\ call.op = "addRows"

Result == call.run.result

\* min(remainingCells, rowBudget * cols), from the grid and the arguments
Budget == Min2(NonEmptyCount(board), call.count * NumCols(board))

\* the positions of the result that hold a value and held none in the input
NewCells ==
  {p \in PosSet(Result) :
     /\ ValueAt(Result, p) # Null
     /\ (p \in PosSet(board) => ValueAt(board, p) = Null)}

Compatible(v, w) == v = w \/ v + w = 10

C12_NoOpWhenClearedOrNoDigits ==
  (Extended /\ (NonEmptyCount(board) = 0 \/ call.availableDigits = {})) =>
    /\ Len(Result) = Len(board)
    /\ \A r \in 1..Len(board) :
         /\ Len(Result[r]) = Len(board[r])
         /\ \A c \in 1..Len(board[r]) : Result[r][c].value = board[r][c].value

\* a cleared grid of two rows extended with digits at hand
C12_Witness ==
  /\ Extended
  /\ NonEmptyCount(board) = 0
  /\ Len(board) = 2
  /\ call.availableDigits = {3, 5}
  /\ Result = board

\* C13: after addRows has placed new cells, at least one pair of newly
\* placed positions can be matched on the returned grid.
C13_NewCellsMatchAmongThemselves ==
  (Extended /\ NewCells # {}) =>
    \E p \in NewCells : \E q \in NewCells : p # q /\ canMatch(Result, p, q)

\* C14 as first stated: in every call that places new cells, every new value
\* has a value-compatible partner in another new cell.
C14_EveryNewValueHasPartner ==
  (Extended /\ NewCells # {}) =>
    \A p \in NewCells : \E q \in NewCells :
      q # p /\ Compatible(ValueAt(Result, p), ValueAt(Result, q))

\* C14: when the number of new cells, min(remainingCells, count * cols), is
\* even, every newly placed value has a value-compatible partner in another
\* newly placed cell.
C14_EveryNewValueHasPartnerWhenEven ==
  (Extended /\ NewCells # {} /\ Budget % 2 = 0) =>
    \A p \in NewCells : \E q \in NewCells :
      q # p /\ Compatible(ValueAt(Result, p), ValueAt(Result, q))

\* four new cells holding both 3 and 5, which do not match each other
C14_Witness ==
  /\ Extended
  /\ Budget = 4
  /\ Cardinality(NewCells) = 4
  /\ \E p \in NewCells : ValueAt(Result, p) = 3
  /\ \E p \in NewCells : ValueAt(Result, p) = 5

\* a non-empty cell no other non-empty value-compatible cell reaches by the
\* row, column or wrap rule or from a diagonally adjacent cell
StuckCell(b, p) ==
  /\ ValueAt(b, p) # Null
  /\ ~\E q \in PosSet(b) :
        /\ q # p
        /\ ValueAt(b, q) # Null
        /\ Compatible(ValueAt(b, p), ValueAt(b, q))
        /\ \/ RowRule(b, p, q) \/ ColumnRule(b, p, q) \/ WrapRule(b, p, q)
           \/ (Abs(p.row - q.row) = 1 /\ Abs(p.col - q.col) = 1)

StuckCells == {p \in PosSet(board) : StuckCell(board, p)}

Rescuable(v, digits) == v \in digits \/ (10 - v) \in digits

\* C15: when twice the number of stuck cells is within the budget, every
\* stuck cell whose digit or complement is available finds a compatible
\* value among the new cells; and the rescue values come from stuck cells
\* only: each rescue value and its pair value go back to a stuck cell, so
\* there are none when no cell is stuck.
C15_StuckCellsRescued ==
  (Extended /\ NonEmptyCount(board) > 0 /\ call.availableDigits # {}) =>
    /\ 2 * Cardinality(StuckCells) <= Budget =>
         \A p \in StuckCells :
           Rescuable(ValueAt(board, p), call.availableDigits) =>
             \E q \in NewCells : Compatible(ValueAt(board, p), ValueAt(Result, q))
    /\ Len(call.run.valuesToPlace) <= 2 * Cardinality(StuckCells)
    /\ \A i \in 1..Len(call.run.valuesToPlace) :
         i % 2 = 1 => \E p \in StuckCells :
                        Compatible(ValueAt(board, p), call.run.valuesToPlace[i])

\* two 3s kept apart by two matching 5s: the 3s are stuck, the 5s are not,
\* and the four new cells hold a 3
C15_Witness ==
  /\ Extended
  /\ call.availableDigits = {3, 5}
  /\ Cardinality(StuckCells) = 2
  /\ NonEmptyCount(board) = 4
  /\ Budget = 4
  /\ \A p \in StuckCells : ValueAt(board, p) = 3
  /\ Len(call.run.valuesToPlace) = 4
  /\ \E q \in NewCells : ValueAt(Result, q) = 3

\* the linear index the first new cell goes to: right after the last
\* non-empty cell of the last row, or the start of a new row when the last
\* row holds no value
FirstNewIndex ==
  LET last == Len(board)
      occupied == {c \in 0..(NumCols(board) - 1) : ValueAt(board, Pos(last - 1, c)) # Null}
  IN IF occupied = {} THEN last * NumCols(board)
     ELSE (last - 1) * NumCols(board) + SetMax(occupied) + 1

\* C16: the k-th value of orderedValues goes to the k-th linear index after
\* the last non-empty cell of the last existing row: the trailing cells of
\* that row first, then full rows, then the leading cells of one partial
\* row whose other cells are empty; a row is appended only when that many
\* values are left over.
C16_PlacementOrder ==
  (Extended /\ NewCells # {}) =>
    LET cols == NumCols(board)
        n == Len(call.run.orderedValues)
    IN /\ {Linear(Result, p) : p \in NewCells} = FirstNewIndex..(FirstNewIndex + n - 1)
       /\ \A p \in NewCells :
            ValueAt(Result, p) = call.run.orderedValues[Linear(Result, p) - FirstNewIndex + 1]
       /\ \A p \in PosSet(Result) :
            Linear(Result, p) >= FirstNewIndex + n => ValueAt(Result, p) = Null
       /\ Len(Result) * cols < FirstNewIndex + n + cols
       /\ Len(Result) >= Len(board)

\* one call that tops up the last row, appends a full row and then a
\* partial row
C16_Witness ==
  /\ Extended
  /\ NumCols(board) = 2
  /\ Len(board) = 3
  /\ FirstNewIndex = 5
  /\ Len(Result) = 5
  /\ Cardinality(NewCells) = 4
  /\ ValueAt(Result, Pos(4, 1)) = Null

\* C17: addRows keeps every non-empty cell of the input, value and
\* position, at its place, keeps the rows in order and the column count;
\* removeMatch empties exactly the two given cells and returns every other
\* cell as it was.
C17_FrameOfAddRowsAndRemoveMatch ==
  /\ Extended =>
       /\ Len(Result) >= Len(board)
       /\ \A r \in 1..Len(Result) : Len(Result[r]) = NumCols(board)
       /\ \A p \in PosSet(board) :
            ValueAt(board, p) # Null => Result[p.row + 1][p.col + 1] = board[p.row + 1][p.col + 1]
  /\ (phase = "extend" /\ call.op = "removeMatch") =>
       \A p \in PosSet(board) : \A q \in PosSet(board) :
         /\ Len(call.result[<<p, q>>]) = Len(board)
         /\ \A r \in 1..Len(board) : Len(call.result[<<p, q>>][r]) = Len(board[r])
         /\ \A x \in PosSet(board) :
              call.result[<<p, q>>][x.row + 1][x.col + 1] =
                IF x = p \/ x = q
                THEN [value |-> Null, position |-> board[x.row + 1][x.col + 1].position]
                ELSE board[x.row + 1][x.col + 1]

\* removeMatch applied to a grid of two rows with three values
C17_Witness ==
  /\ phase = "extend"
  /\ call.op = "removeMatch"
  /\ Len(board) = 2
  /\ NonEmptyCount(board) = 3
  /\ \E p \in PosSet(board) : \E q \in PosSet(board) :
       /\ p.row # q.row
       /\ ValueAt(board, p) # Null /\ ValueAt(board, q) # Null
       /\ NonEmptyCount(call.result[<<p, q>>]) = 1

C24_PruningKeepsBoundedPaths ==
  Called("pathAfterRemoveClearedRows") =>
    \A ab \in DOMAIN call.result :
      call.result[ab].bounded /\ call.result[ab].unbounded

\* two cells joined over a fully empty row, which the pruning removes, and
\* a pair on a diagonal of length 2 over that row, which the bound excludes
C24_Witness ==
  /\ Called("pathAfterRemoveClearedRows")
  /\ Len(board) = 3
  /\ isRowCleared(board[2])
  /\ \E ab \in DOMAIN call.result :
       /\ ab[1].row = 0 /\ ab[2].row = 2
       /\ ValueAt(board, ab[1]) # Null /\ ValueAt(board, ab[2]) # Null
  /\ \E a \in PosSet(board) : \E b \in PosSet(board) :
       /\ a.row = 0 /\ b.row = 2 /\ Abs(a.col - b.col) = 2
       /\ <<a, b>> \notin DOMAIN call.result
       /\ hasValidPath(board, a, b, NoOptions)

(***************************************************************************)
(* The claims about the grids of play, under SpecPlay.                     *)
(***************************************************************************)
ColsOf(b) == IF Len(b) = 0 THEN 0 ELSE Len(b[1])

ValuesOn(b) == IF Len(b) = 0 THEN 0 ELSE NonEmptyCount(b)

C20_PositionsMatchIndexes ==
  Returned =>
    \A r \in 1..Len(board) :
      /\ Len(board[r]) = req.cols
      /\ \A c \in 1..Len(board[r]) : board[r][c].position = Pos(r - 1, c - 1)

\* a board generated with two rows that was extended and pruned to three,
\* the last one partly filled
C20_Witness ==
  /\ Returned
  /\ req.rows = 2
  /\ req.availableDigits = {3, 5}
  /\ Len(board) = 3
  /\ board[3][1].value # Null
  /\ board[3][2].value = Null
  /\ board[1][1].value = Null

\* the number of cells of b that hold d or 10 - d
ClassCount(b, d) ==
  Cardinality({p \in PosSet(b) : ValueAt(b, p) # Null /\ ValueAt(b, p) \in {d, 10 - d}})

\* C29: in every grid reached from generateBoard by removals of pairs that
\* canMatch accepts, row prunings and extensions whose count * cols is even,
\* the number of non-empty cells is even and, for every digit d, so is the
\* number of cells that hold d or 10 - d.
C29_DigitClassesEven ==
  (Returned /\ call = NoCall) =>
    /\ ValuesOn(board) % 2 = 0
    /\ \A d \in ALL_DIGITS : Len(board) > 0 => ClassCount(board, d) % 2 = 0

\* a board generated with the digits 3 and 5 that was extended and played
\* on: rows were added, cells are empty again, and both digits are left
C29_Witness ==
  /\ Returned
  /\ call = NoCall
  /\ req.availableDigits = {3, 5}
  /\ Len(board) > req.rows
  /\ ClassCount(board, 3) >= 2
  /\ ClassCount(board, 5) >= 2
  /\ ValuesOn(board) < Len(board) * ColsOf(board) - 2

(***************************************************************************)
(* The claims about the construction of a board, under Spec.               *)
(***************************************************************************)
\* the positions the first k placements filled
PlacedPositions(placed, k) ==
  {placed[i][1] : i \in 1..k} \cup {placed[i][2] : i \in 1..k}

\* the grid as it was when k placements had been made
GridAfter(b, placed, k) ==
  [r \in 1..Len(b) |->
     [c \in 1..Len(b[r]) |->
        IF Pos(r - 1, c - 1) \in PlacedPositions(placed, k) THEN b[r][c]
        ELSE MkCell(Null, r - 1, c - 1)]]

\* removal of the placements k, k - 1, ..., 1 in that order: canMatch accepts
\* each one when its turn comes and the grid is cleared at the end
RECURSIVE ReverseReplayClears(_, _, _)
ReverseReplayClears(b, placed, k) ==
  IF k = 0 THEN isBoardCleared(b)
  ELSE /\ canMatch(b, placed[k][1], placed[k][2])
       /\ ReverseReplayClears(removeMatch(b, placed[k][1], placed[k][2]), placed, k - 1)

\* C22: while tryGenerateSolvableBoard builds a grid, every placement had a
\* path between its two positions on the grid as filled before it and got
\* two digits that match, no position was filled twice and the filled cells
\* are the placed ones; so removing the placements in the reverse of their
\* order finds canMatch true at every removal and clears the grid.
C22_ReversePlacementClears ==
  phase = "placing" =>
    LET placed == gen.placed
        n == Len(placed)
    IN /\ n = gen.pairIdx
       /\ Cardinality(PlacedPositions(placed, n)) = 2 * n
       /\ \A p \in PosSet(board) :
            ValueAt(board, p) # Null <=> p \in PlacedPositions(placed, n)
       /\ \A k \in 1..n :
            /\ hasValidPath(GridAfter(board, placed, k - 1),
                            placed[k][1], placed[k][2], NoOptions)
            /\ canMatchValues(ValueAt(board, placed[k][1]),
                              ValueAt(board, placed[k][2]))
       /\ ReverseReplayClears(board, placed, n)

\* a finished grid of four or more placements on which a placement made
\* earlier is no longer a match, because later placements lie on its path
C22_Witness ==
  /\ phase = "placing"
  /\ gen.pairIdx = (req.rows * req.cols) \div 2
  /\ Len(gen.placed) >= 4
  /\ \E k \in 1..Len(gen.placed) :
       ~canMatch(board, gen.placed[k][1], gen.placed[k][2])

\* the attempts the loop of the stage being tried may make
AttemptLimit == IF gen.stage = req.stage THEN MainAttempts ELSE FallbackAttempts

Running == phase = "placing" \/ phase = "lastResort"

\* an upper bound of the steps a running call has left: the passes and the
\* verification of the attempt being made, those of the attempts left at
\* its stage and at the stages below, and the last resort
StepsLeft ==
  LET stepsPerAttempt == (req.rows * req.cols) \div 2 + 1
      attemptsLeft == (gen.stage - 1) * FallbackAttempts + (AttemptLimit - 1 - gen.attempt)
  IN IF phase = "placing"
     THEN 1 + attemptsLeft * stepsPerAttempt + (stepsPerAttempt - gen.pairIdx)
     ELSE IF phase = "lastResort" THEN 1
     ELSE 0

\* C25: a call of generateBoard ends: while it runs it can always take a
\* step, and every step lowers the bound StepsLeft, which is never below 0.
\* While it runs, the stage it tries goes from the requested one down to 1,
\* with at most 50 attempts at the requested stage and no more than 50 at
\* each lower one; an attempt starts from the empty board and all
\* positions; the first finished board that passes verifyBoardSolvable is
\* returned as it is; and the last resort is taken only when the last
\* attempt of stage 1 has failed.
C25_RetryCascadeBoundedAndEnds ==
  /\ [](phase = "placing" =>
          /\ gen.stage >= 1 /\ gen.stage <= req.stage
          /\ gen.attempt < AttemptLimit
          /\ AttemptLimit <= 50
          /\ PlacingCanStep
          /\ (gen.pairIdx = 0 =>
                /\ board = createEmptyBoard(req.rows, req.cols)
                /\ gen.remaining = [i \in 1..(req.rows * req.cols) |-> i - 1]
                /\ gen.placed = <<>>))
  /\ [][/\ (phase = "placing" /\ phase' = "placing" /\ gen'.pairIdx = 0) =>
            \/ gen'.stage = gen.stage /\ gen'.attempt = gen.attempt + 1
            \/ /\ gen'.stage = gen.stage - 1 /\ gen'.attempt = 0
               /\ gen.attempt + 1 = AttemptLimit
        /\ (phase = "placing" /\ gen.pairIdx = (req.rows * req.cols) \div 2
             /\ verifyBoardSolvable(board)) =>
              (phase' = "ready" /\ board' = board)
        /\ phase' = "lastResort" =>
              (phase = "placing" /\ gen.stage = 1 /\ gen.attempt + 1 = AttemptLimit)]_vars
  /\ [](StepsLeft >= 0)
  /\ [][Running => StepsLeft' < StepsLeft]_vars

\* the last attempt of a stage below the requested one, on a board no
\* attempt can fill
C25_Witness ==
  /\ phase = "placing"
  /\ gen.stage < req.stage
  /\ gen.stage > 1
  /\ gen.attempt = FallbackAttempts - 1
  /\ gen.pairIdx > 0

(***************************************************************************)
(* The target gap of one pass of the "Place pairs" loop.  InitGap draws    *)
(* the pass: totalPairs, pairIdx and the stage; remaining holds the two    *)
(* indexes of every pair still to place.  ApplyMaxGap records maxGap and   *)
(* the targetGap the search for pos2 starts from.                          *)
(***************************************************************************)
\* const targetGap = Math.min(maxGap, remaining.length - 1)
targetGapOf(maxGap, remainingLength) == Min2(maxGap, remainingLength - 1)

InitGap ==
  /\ board = <<>>
  /\ phase = "gap"
  /\ \E totalPairs \in 1..MaxGapPairs : \E pairIdx \in 0..(totalPairs - 1) :
     \E stage \in Stages :
       /\ req = [rows |-> 2, cols |-> totalPairs, stage |-> stage,
                 availableDigits |-> ALL_DIGITS]
       /\ gen = [stage |-> stage, attempt |-> 0, pairIdx |-> pairIdx,
                 remaining |-> [i \in 1..(2 * (totalPairs - pairIdx)) |->
                                  2 * pairIdx + i - 1],
                 placed |-> <<>>]
  /\ source = "none"
  /\ moves = 0
  /\ call = NoCall
  /\ hook = NoHook

ApplyMaxGap ==
  /\ phase = "gap"
  /\ call = NoCall
  /\ LET maxGap == maxGapOf(gen.pairIdx, req.cols, Len(gen.remaining), gen.stage)
     IN call' = [op |-> "maxGap", maxGap |-> maxGap,
                 targetGap |-> targetGapOf(maxGap, Len(gen.remaining))]
  /\ UNCHANGED <<board, phase, req, gen, source, moves, hook>>

NextGap == ApplyMaxGap

SpecGap == InitGap /\ [][NextGap]_vars

\* the target gap of a pass that uses the stage's full gap
FullTargetGap ==
  targetGapOf(IF preferFar(gen.stage) THEN Min2(Len(gen.remaining) - 1, 15)
              ELSE Min2(Len(gen.remaining) - 1, 8),
              Len(gen.remaining))

\* C26: every pass whose progress pairIdx / totalPairs is below 0.6 searches
\* from the stage's full target gap; only the passes of the last 40% start
\* from a narrowed one.
C26_FullGapBelowSixtyPercent ==
  (phase = "gap" /\ call.op = "maxGap" /\ 10 * gen.pairIdx < 6 * req.cols) =>
    call.targetGap = FullTargetGap

(***************************************************************************)
(* generateAdjacentPairsBoard applied to the shapes generateBoard lets     *)
(* through (an even number of cells), and then the removal of its pairs    *)
(* of linear neighbours in any order.                                      *)
(***************************************************************************)
FallbackShapes ==
  {sh \in (1..MaxFallbackRows) \X (1..MaxFallbackCols) :
     sh[1] * sh[2] <= MaxFallbackCells /\ ~hasOddCells(sh[1], sh[2])}

InitFallback ==
  /\ board = <<>>
  /\ phase = "fallback"
  /\ \E sh \in FallbackShapes : \E availableDigits \in FallbackDigitSets :
       req = [rows |-> sh[1], cols |-> sh[2], stage |-> 1,
              availableDigits |-> availableDigits]
  /\ gen = NoGen
  /\ source = "none"
  /\ moves = 0
  /\ call = NoCall
  /\ hook = NoHook

ApplyGenerateAdjacentPairsBoard ==
  /\ phase = "fallback"
  /\ board' \in generateAdjacentPairsBoard(req.rows, req.cols, req.availableDigits)
  /\ phase' = "fallbackBoard"
  /\ source' = "fallback"
  /\ UNCHANGED <<req, gen, moves, call, hook>>

\* the two positions of the pair of linear indexes i, i + 1 (lines 419-420)
AdjacentPair(i, cols) ==
  <<Pos(i \div cols, i % cols), Pos((i + 1) \div cols, (i + 1) % cols)>>

\* removeMatch of one of the pairs of the layout that is still on the board
RemoveAdjacentPair ==
  /\ phase = "fallbackBoard"
  /\ \E k \in 0..((req.rows * req.cols) \div 2 - 1) :
       LET pair == AdjacentPair(2 * k, req.cols)
       IN /\ ValueAt(board, pair[1]) # Null
          /\ ValueAt(board, pair[2]) # Null
          /\ board' = removeMatch(board, pair[1], pair[2])
  /\ moves' = moves + 1
  /\ UNCHANGED <<phase, req, gen, source, call, hook>>

NextFallback ==
  \/ ApplyGenerateAdjacentPairsBoard
  \/ RemoveAdjacentPair

SpecFallback == InitFallback /\ [][NextFallback]_vars

EmptyingGrids ==
  UNION {UNION {{gridOf(shape[1], shape[2], filled, values) :
                   values \in [filled -> EmptyingDigits]} :
                filled \in {f \in SUBSET (0..(shape[1] * shape[2] - 1)) :
                              Cardinality(f) \in FilledCounts}} :
         shape \in {sh \in (1..GridRows) \X (1..GridCols) : sh[1] * sh[2] <= GridCells}}

InitEmptying ==
  /\ board \in EmptyingGrids
  /\ phase = "emptying"
  /\ req = NoReq
  /\ gen = NoGen
  /\ source = "none"
  /\ moves = 0
  /\ call = NoCall
  /\ hook = NoHook

\* the grid with the cells at the positions of cells set to null, as
\* removeMatch does for its two positions
emptyCells(b, cells) ==
  [r \in 1..Len(b) |->
     [c \in 1..Len(b[r]) |->
        IF Pos(r - 1, c - 1) \in cells THEN [b[r][c] EXCEPT !.value = Null]
        ELSE b[r][c]]]

FilledPositions(b) == {p \in PosSet(b) : ValueAt(b, p) # Null}

PathOptions == {NoOptions, ADDROWS_PATH_OPTIONS}

ApplyPathAfterEmptying ==
  /\ phase = "emptying"
  /\ call = NoCall
  /\ call' = [op |-> "pathAfterEmptying",
              result |-> [cells \in SUBSET FilledPositions(board) |->
                            [pqo \in PosSet(board) \X PosSet(board) \X PathOptions |->
                               hasValidPath(emptyCells(board, cells),
                                            pqo[1], pqo[2], pqo[3])]]]
  /\ UNCHANGED <<board, phase, req, gen, source, moves, hook>>

ApplyCanMatchAfterRemoveMatch ==
  /\ phase = "emptying"
  /\ call = NoCall
  /\ call' = [op |-> "canMatchAfterRemoveMatch",
              result |-> [cd \in {pq \in PosSet(board) \X PosSet(board) :
                                    canMatch(board, pq[1], pq[2])} |->
                            [ab \in PosSet(board) \X PosSet(board) |->
                               canMatch(removeMatch(board, cd[1], cd[2]),
                                        ab[1], ab[2])]]]
  /\ UNCHANGED <<board, phase, req, gen, source, moves, hook>>

NextEmptying ==
  \/ ApplyPathAfterEmptying
  \/ ApplyCanMatchAfterRemoveMatch

SpecEmptying == InitEmptying /\ [][NextEmptying]_vars

\* C28: a path hasValidPath finds, with or without maxDiagonalDistance, is
\* still found when any set of cells of the grid has been set to null; and
\* a pair canMatch accepts is still accepted after removeMatch of another
\* pair that shares no cell with it.
C28_EmptyingKeepsPaths ==
  /\ (phase = "emptying" /\ call.op = "pathAfterEmptying") =>
       \A cells \in DOMAIN call.result :
         \A pqo \in DOMAIN call.result[cells] :
           hasValidPath(board, pqo[1], pqo[2], pqo[3]) => call.result[cells][pqo]
  /\ (phase = "emptying" /\ call.op = "canMatchAfterRemoveMatch") =>
       \A cd \in DOMAIN call.result :
         \A ab \in DOMAIN call.result[cd] :
           (canMatch(board, ab[1], ab[2]) /\ {ab[1], ab[2]} \cap {cd[1], cd[2]} = {})
             => call.result[cd][ab]

\* three values in a row of a grid: the outer two are joined once the middle
\* one is emptied and stay joined when an end is emptied as well
C28_Witness ==
  /\ phase = "emptying"
  /\ call.op = "pathAfterEmptying"
  /\ \E a \in PosSet(board) : \E b \in PosSet(board) : \E m \in PosSet(board) :
       /\ a.row = b.row /\ m.row = a.row
       /\ a.col < m.col /\ m.col < b.col
       /\ {a, b, m} \subseteq FilledPositions(board)
       /\ ~hasValidPath(board, a, b, NoOptions)
       /\ call.result[{m}][<<a, b, NoOptions>>]
       /\ call.result[{m, a}][<<a, b, NoOptions>>]
       /\ \E c \in PosSet(board) :
            /\ hasValidPath(board, a, c, ADDROWS_PATH_OPTIONS)
            /\ call.result[{m, a}][<<a, c, ADDROWS_PATH_OPTIONS>>]

(***************************************************************************)
(* verifyBoardSolvable as a process: board is currentBoard, moves its      *)
(* counter, and one step is one pass of the while loop.  InitVerify draws  *)
(* a fully filled board.                                                   *)
(***************************************************************************)
\* the board of that shape whose cells hold fill[1] and fill[2] in turn
filledBoard(rows, cols, fill) ==
  [r \in 1..rows |-> [c \in 1..cols |->
     MkCell(fill[(((r - 1) * cols + (c - 1)) % 2) + 1], r - 1, c - 1)]]

InitVerify ==
  /\ \E sh \in VerifyShapes : \E fill \in VerifyFills :
       /\ board = filledBoard(sh[1], sh[2], fill)
       /\ req = [rows |-> sh[1], cols |-> sh[2], stage |-> 1,
                 availableDigits |-> {fill[1], fill[2]}]
  /\ phase = "verifying"
  /\ gen = NoGen
  /\ source = "none"
  /\ moves = 0
  /\ call = NoCall
  /\ hook = NoHook

\* one pass of "while (moves < maxMoves)", or the return after the loop
VerifyStep ==
  /\ phase = "verifying"
  /\ IF moves < maxMoves
     THEN IF isBoardCleared(board)
          THEN phase' = "returned true" /\ UNCHANGED <<board, moves>>
          ELSE LET pair == findValidPair(board)
               IN IF pair = NoPair
                  THEN phase' = "returned false" /\ UNCHANGED <<board, moves>>
                  ELSE /\ board' = removeMatch(board, pair[1], pair[2])
                       /\ moves' = moves + 1
                       /\ UNCHANGED phase
     ELSE phase' = "returned false" /\ UNCHANGED <<board, moves>>
  /\ UNCHANGED <<req, gen, source, call, hook>>

NextVerify == VerifyStep

SpecVerify == InitVerify /\ [][NextVerify]_vars

\* C27: verifyBoardSolvable returns true only with the board cleared, and
\* returns false only when the simulation is stuck: the board it stopped on
\* is not cleared and findValidPair finds no pair on it, whatever the size
\* of the board.
C27_RejectsOnlyStuckBoards ==
  /\ phase = "returned true" => isBoardCleared(board)
  /\ phase = "returned false" =>
       ~isBoardCleared(board) /\ findValidPair(board) = NoPair

(***************************************************************************)
(* The useGame hook.  board is the board state; hook holds the other       *)
(* state the handlers below read or write (stage, selectedCell,            *)
(* addRowsRemaining, stageComplete, gameOver, clearingRows), the number of *)
(* row-clear timers pending, and closure: what the handlers of the last    *)
(* render captured.  A state update is applied to the state at once, in    *)
(* the order React applies the queue; the handlers keep reading closure    *)
(* until Render.  generateBoard runs as in Spec, from phase "idle" to      *)
(* phase "ready"; the hook then stores the returned board (phase           *)
(* "playing"), and no handler or timer runs in between.  With HookDigits   *)
(* every attempt of generateBoard verifies, so its last resort is not      *)
(* among the steps.                                                        *)
(* score, the help button (which only ever sets selectedCell to null) and  *)
(* the glow, hint and invalid-match animations are left out.               *)
(***************************************************************************)
MAX_ADD_ROWS == 4

NoSelection == [row |-> -1, col |-> -1]

\* closure.current: the board and selectedCell the handlers captured are
\* those of the state
mountedHook ==
  [mounted |-> TRUE, stage |-> 1, selectedCell |-> NoSelection,
   addRowsRemaining |-> MAX_ADD_ROWS, stageComplete |-> FALSE, gameOver |-> FALSE,
   clearingRows |-> {}, pruneTimers |-> 0,
   closure |-> [stage |-> 1, addRowsRemaining |-> MAX_ADD_ROWS, current |-> FALSE]]

\* useGame() is called: the useState initializers have run, except that
\* of board, which is about to call generateBoard
InitHook ==
  /\ board = <<>>
  /\ phase = "idle"
  /\ req = NoReq
  /\ gen = NoGen
  /\ source = "none"
  /\ moves = 0
  /\ call = NoCall
  /\ hook = mountedHook

\* the cells the Board component renders, each with its onClick
renderedCells == IF Len(board) = 0 THEN {} ELSE PosSet(board)

\* generateBoard({ rows: INITIAL_ROWS, cols: COLS, stage })
HookGenerateBoard == GenerateBoard(HookRows, HookCols, hook.stage, HookDigits)

\* generateBoard has returned: the useState initializer or setBoard takes
\* the board, and the locals of generateBoard are gone
SetBoard ==
  /\ phase = "ready"
  /\ phase' = "playing"
  /\ req' = NoReq
  /\ gen' = NoGen
  /\ source' = "none"
  /\ moves' = 0
  /\ hook' = [hook EXCEPT !.closure.current = FALSE]
  /\ UNCHANGED <<board, call>>

\* a render, and the two effects that look at the board: the handlers
\* capture the state, which the effects have updated
Render ==
  /\ phase = "playing"
  /\ LET cleared == isBoardCleared(board)
         complete == cleared /\ ~hook.stageComplete
         over == /\ hook.clearingRows = {}
                 /\ ~hook.gameOver
                 /\ ~hook.stageComplete
                 /\ ~cleared
                 /\ ~hasAnyValidMatch(board)
                 /\ hook.addRowsRemaining = 0
     IN hook' = [hook EXCEPT
                   !.stageComplete = hook.stageComplete \/ complete,
                   !.gameOver = hook.gameOver \/ over,
                   !.selectedCell = IF complete \/ over THEN NoSelection
                                    ELSE hook.selectedCell,
                   !.closure = [stage |-> hook.stage,
                                addRowsRemaining |-> hook.addRowsRemaining,
                                current |-> TRUE]]
  /\ hook' # hook
  /\ UNCHANGED <<board, phase, req, gen, source, moves, call>>

\* handleCellClick(position), called from a click on a cell of the rendered
\* board: a browser event of its own, so the handler is that of the state
HandleCellClick(position) ==
  /\ phase = "playing"
  /\ hook.closure.current
  /\ position \in renderedCells
  /\ ValueAt(board, position) # Null
  /\ IF hook.selectedCell = NoSelection
     THEN /\ hook' = [hook EXCEPT !.selectedCell = position, !.closure.current = FALSE]
          /\ UNCHANGED board
     ELSE IF hook.selectedCell = position
     THEN /\ hook' = [hook EXCEPT !.selectedCell = NoSelection,
                                  !.closure.current = FALSE]
          /\ UNCHANGED board
     ELSE IF canMatch(board, hook.selectedCell, position)
     THEN LET boardAfterMatch == removeMatch(board, hook.selectedCell, position)
              clearedIndices == getClearedRowIndices(boardAfterMatch)
          IN /\ board' = boardAfterMatch
             /\ IF clearedIndices # {}
                THEN /\ hook.pruneTimers < MaxPruneTimers
                     /\ hook' = [hook EXCEPT !.clearingRows = clearedIndices,
                                             !.pruneTimers = hook.pruneTimers + 1,
                                             !.selectedCell = NoSelection,
                                             !.closure.current = FALSE]
                ELSE hook' = [hook EXCEPT !.selectedCell = NoSelection,
                                          !.closure.current = FALSE]
     ELSE /\ hook' = [hook EXCEPT !.selectedCell = NoSelection,
                                  !.closure.current = FALSE]
          /\ UNCHANGED board
  /\ UNCHANGED <<phase, req, gen, source, moves, call>>

\* the timeout set by a match that cleared rows, ROW_CLEAR_ANIMATION_MS later
PruneTimerFires ==
  /\ phase = "playing"
  /\ hook.pruneTimers > 0
  /\ board' = removeClearedRows(board)
  /\ hook' = [hook EXCEPT !.clearingRows = {},
                          !.pruneTimers = hook.pruneTimers - 1,
                          !.closure.current = FALSE]
  /\ UNCHANGED <<phase, req, gen, source, moves, call>>

\* handleAddRows() past its early return; the handler may be called again
\* before the next render, as the tests of the hook do
HandleAddRows ==
  /\ phase = "playing"
  /\ ~(hook.closure.addRowsRemaining <= 0)
  /\ hook.addRowsRemaining > -MaxOvershoot
  /\ Len(board) + HookRowsToAdd <= MaxHookRows
  /\ board' \in addRows(board, HookRowsToAdd, HookCols, HookDigits)
  /\ hook' = [hook EXCEPT !.addRowsRemaining = hook.addRowsRemaining - 1,
                          !.closure.current = FALSE]
  /\ UNCHANGED <<phase, req, gen, source, moves, call>>

\* handleNewGame(), up to its call of generateBoard
HandleNewGame ==
  /\ phase = "playing"
  /\ board' = <<>>
  /\ phase' = "idle"
  /\ hook' = [hook EXCEPT !.stage = 1,
                          !.selectedCell = NoSelection,
                          !.addRowsRemaining = MAX_ADD_ROWS,
                          !.stageComplete = FALSE,
                          !.gameOver = FALSE,
                          !.closure.current = FALSE]
  /\ UNCHANGED <<req, gen, source, moves, call>>

\* handleContinue(), up to its call of generateBoard
HandleContinue ==
  /\ phase = "playing"
  /\ hook.closure.stage < MaxHookStage
  /\ board' = <<>>
  /\ phase' = "idle"
  /\ hook' = [hook EXCEPT !.stage = hook.closure.stage + 1,
                          !.addRowsRemaining = MAX_ADD_ROWS,
                          !.stageComplete = FALSE,
                          !.closure.current = FALSE]
  /\ UNCHANGED <<req, gen, source, moves, call>>

NextHook ==
  \/ HookGenerateBoard
  \/ PlacePair
  \/ VerifyBoard
  \/ SetBoard
  \/ Render
  \/ \E position \in renderedCells : HandleCellClick(position)
  \/ PruneTimerFires
  \/ HandleAddRows
  \/ HandleNewGame
  \/ HandleContinue

SpecHook == InitHook /\ [][NextHook]_vars

\* C21: addRowsRemaining is between 0 and 4 whatever calls of handleAddRows
\* were made, also several before a render.
C21_AddRowsRemainingInRange ==
  hook.mounted => (hook.addRowsRemaining >= 0 /\ hook.addRowsRemaining <= MAX_ADD_ROWS)

\* C30: whenever selectedCell is not null it is the position of a non-empty
\* cell inside the current board.
C30_SelectedCellOnBoard ==
  (hook.mounted /\ phase = "playing" /\ hook.selectedCell # NoSelection) =>
    /\ hook.selectedCell \in renderedCells
    /\ ValueAt(board, hook.selectedCell) # Null

====
